---- MODULE Spec2Model ----
(***************************************************************************)
(* Model of the eComp alignment codec: the sequence-order optimizer, the   *)
(* compress / decompress pipeline with its gzip fallback, and the file     *)
(* level wrappers (src/src/evolutionary_compression).                      *)
(*                                                                         *)
(* Conventions: a character is a one-character string, a Python str or     *)
(* list is a sequence, a bytes value is a sequence of numbers 0..255, a    *)
(* row index is 0-based as in the source (position k of a sequence holds   *)
(* the element with Python index k-1).                                     *)
(***************************************************************************)
EXTENDS Integers, Sequences, FiniteSets, TLC

VARIABLES frame, env, oracle, pc, ordering, compressed, restored, disk, outcome,
          call, written, returned

vars == <<frame, env, oracle, pc, ordering, compressed, restored, disk, outcome,
          call, written, returned>>

(***************************************************************************)
(* Bounds of the model.                                                    *)
(***************************************************************************)
MaxRows == 3
MaxCols == 2
MaxCells == 6
MaxBlocks == 2
MaxMaskWidth == 2
MaxIds == 2
MaxIdLength == 130
MaxPayloadLength == 257
MaxSampleLength == 520
MaxMatrixRows == 4
MaxDistance == 1

Symbols == {"A", "T", "-"}
IdPool == << <<"a">>, <<"b">>, <<"c">>, <<"d">>, <<"e">> >>

\* Python None for an optional str or list: the empty sequence
NULL == <<>>

(***************************************************************************)
(* Generic helpers.                                                        *)
(***************************************************************************)
Range(s) == {s[i] : i \in DOMAIN s}

MinOf(S) == CHOOSE x \in S : \A y \in S : x <= y

MaxOf(S) == CHOOSE x \in S : \A y \in S : x >= y

\* list(range(n)) : the 0-based indices 0, 1, ..., n-1
RangeList(n) == [k \in 1..n |-> k - 1]

\* Python ord() on the characters the model uses
Ord(c) ==
  CASE c = "A" -> 65 [] c = "T" -> 84 [] c = "-" -> 45 [] c = "C" -> 67
    [] c = "a" -> 97 [] c = "b" -> 98 [] c = "c" -> 99 [] c = "d" -> 100
    [] c = "e" -> 101 [] c = "x" -> 120
    [] c = ">" -> 62 [] c = "\n" -> 10 [] c = " " -> 32
    [] c = "(" -> 40 [] c = ")" -> 41 [] c = "," -> 44 [] c = ";" -> 59
    [] c = ":" -> 58 [] c = "1" -> 49
    [] c = "E" -> 69 [] c = "I" -> 73 [] c = "D" -> 68 [] c = "M" -> 77
    [] c = "P" -> 80 [] c = "Z" -> 90 [] c = "{" -> 123 [] c = "}" -> 125

CharPool ==
  {"A", "T", "-", "C", "a", "b", "c", "d", "e", "x", ">", "\n", " ",
   "(", ")", ",", ";", ":", "1", "E", "I", "D", "M", "P",
   "Z", "{", "}"}

\* Python chr() on the same characters
Chr(b) == CHOOSE c \in CharPool : Ord(c) = b

(***************************************************************************)
(* io.alignment_from_sequences / AlignmentFrame                            *)
(***************************************************************************)
RECURSIVE SortedChars(_)
SortedChars(S) ==
  IF S = {} THEN <<>>
  ELSE LET c == CHOOSE x \in S : \A y \in S : Ord(x) <= Ord(y)
       IN <<c>> \o SortedChars(S \ {c})

DerivedAlphabet(sequences) ==
  SortedChars(UNION {Range(sequences[i]) : i \in DOMAIN sequences})

alignment_from_sequences(ids, sequences, alphabet, metadata) ==
  [ids |-> ids,
   sequences |-> sequences,
   alphabet |-> IF alphabet = NULL THEN DerivedAlphabet(sequences) ELSE alphabet,
   metadata |-> metadata]

num_sequences(f) == Len(f.sequences)

alignment_length(f) == IF Len(f.sequences) = 0 THEN 0 ELSE Len(f.sequences[1])

(***************************************************************************)
(* Sequence-order optimizer (pipeline.py)                                  *)
(***************************************************************************)
SAMPLE_CAP == 256

\* range(0, length, step) as a sequence
StrideList(length, step) ==
  [k \in 1..((length + step - 1) \div step) |-> (k - 1) * step]

_select_sample_indices(length, cap) ==
  IF length <= 0 THEN <<>>
  ELSE IF length <= cap THEN RangeList(length)
  ELSE LET step == IF length \div cap >= 1 THEN length \div cap ELSE 1
           indices == StrideList(length, step)
       IN IF indices[Len(indices)] # length - 1
          THEN Append(indices, length - 1)
          ELSE indices

_approximate_distance(seq_a, seq_b, sample_indices) ==
  Cardinality({k \in DOMAIN sample_indices :
                 seq_a[sample_indices[k] + 1] # seq_b[sample_indices[k] + 1]})

\* matrix[i][j] for 0-based row indices i, j
_build_distance_matrix(sequences, sample_indices) ==
  [i \in 0..(Len(sequences) - 1) |->
     [j \in 0..(Len(sequences) - 1) |->
        IF i = j \/ Len(sample_indices) = 0 THEN 0
        ELSE _approximate_distance(sequences[i + 1], sequences[j + 1], sample_indices)]]

MatrixSize(dm) == Cardinality(DOMAIN dm)

\* a value above every distance, standing for float("inf")
KeyInf(dm) == 1 + MaxOf({dm[i][j] : i \in DOMAIN dm, j \in DOMAIN dm} \cup {0})

\* min(candidates, key=...) : the first index (ascending) of minimum key
ArgMinFirst(S, key) ==
  CHOOSE u \in S : \A w \in S : key[u] < key[w] \/ (key[u] = key[w] /\ u <= w)

\* the Prim loop of _mst_sequence_order: returns the parent array
RECURSIVE PrimLoop(_, _, _, _, _)
PrimLoop(dm, round, visited, key, parent) ==
  IF round = 0 THEN parent
  ELSE LET n == MatrixSize(dm)
           u == ArgMinFirst({idx \in 0..(n - 1) : ~visited[idx]}, key)
           vis2 == [visited EXCEPT ![u] = TRUE]
           upd(v) == ~vis2[v] /\ v # u /\ dm[u][v] < key[v]
           key2 == [v \in 0..(n - 1) |-> IF upd(v) THEN dm[u][v] ELSE key[v]]
           par2 == [v \in 0..(n - 1) |-> IF upd(v) THEN u ELSE parent[v]]
       IN PrimLoop(dm, round - 1, vis2, key2, par2)

\* adjacency[par] : the children of par in ascending child index
RECURSIVE AscendingList(_)
AscendingList(S) ==
  IF S = {} THEN <<>>
  ELSE LET m == MinOf(S) IN <<m>> \o AscendingList(S \ {m})

\* sorted(children, key=dist[node][idx], reverse=True): descending key,
\* equal keys keep their original (ascending index) order
RECURSIVE SortedDescStable(_, _)
SortedDescStable(children, key) ==
  IF Len(children) = 0 THEN <<>>
  ELSE LET p == CHOOSE i \in DOMAIN children :
                  /\ \A j \in DOMAIN children : key[children[i]] >= key[children[j]]
                  /\ \A j \in 1..(i - 1) : key[children[j]] < key[children[i]]
           rest == [k \in 1..(Len(children) - 1) |->
                      IF k < p THEN children[k] ELSE children[k + 1]]
       IN <<children[p]>> \o SortedDescStable(rest, key)

\* the stack-based traversal of _mst_sequence_order
RECURSIVE MstWalk(_, _, _, _)
MstWalk(dm, adjacency, stack, order) ==
  IF Len(stack) = 0 THEN order
  ELSE LET node == stack[Len(stack)]
           children == SortedDescStable(adjacency[node], dm[node])
       IN MstWalk(dm, adjacency, SubSeq(stack, 1, Len(stack) - 1) \o children,
                  Append(order, node))

_mst_sequence_order(dm) ==
  LET n == MatrixSize(dm) IN
  IF n = 0 THEN <<>>
  ELSE LET parent == PrimLoop(dm, n,
                              [v \in 0..(n - 1) |-> FALSE],
                              [v \in 0..(n - 1) |-> IF v = 0 THEN 0 ELSE KeyInf(dm)],
                              [v \in 0..(n - 1) |-> -1])
           adjacency == [p \in 0..(n - 1) |->
                           AscendingList({c \in 0..(n - 1) : parent[c] = p})]
       IN MstWalk(dm, adjacency, <<0>>, <<>>)

RECURSIVE SumRow(_, _)
SumRow(row, n) == IF n = 0 THEN 0 ELSE row[n - 1] + SumRow(row, n - 1)

RECURSIVE GreedyLoop(_, _, _, _)
GreedyLoop(dm, remaining, current, order) ==
  IF remaining = {} THEN order
  ELSE LET next_node == ArgMinFirst(remaining, dm[current])
       IN GreedyLoop(dm, remaining \ {next_node}, next_node, Append(order, next_node))

\* the variant that starts at row 0 whatever the row sums are
_greedy_sequence_order_FromRowZero(dm) ==
  LET n == MatrixSize(dm) IN
  IF n = 0 THEN <<>> ELSE GreedyLoop(dm, (0..(n - 1)) \ {0}, 0, <<0>>)

_greedy_sequence_order(dm) ==
  LET n == MatrixSize(dm) IN
  IF n = 0 THEN <<>>
  ELSE LET rowsum == [idx \in 0..(n - 1) |-> SumRow(dm[idx], n)]
           start == ArgMinFirst(0..(n - 1), rowsum)
       IN GreedyLoop(dm, (0..(n - 1)) \ {start}, start, <<start>>)

RECURSIVE CostFrom(_, _, _)
CostFrom(order, dm, i) ==
  IF i > Len(order) THEN 0
  ELSE dm[order[i - 1]][order[i]] + CostFrom(order, dm, i + 1)

_order_cost(order, dm) == IF Len(order) <= 1 THEN 0 ELSE CostFrom(order, dm, 2)

(***************************************************************************)
(* _choose_order                                                           *)
(***************************************************************************)
\* str.lower() on the values the override key takes in the model
Lower(s) ==
  CASE s = "MST" -> "mst" [] s = "GREEDY" -> "greedy" [] OTHER -> s

\* Python string comparison label < other on the candidate labels
LabelRank(label) ==
  CASE label = "baseline" -> 1 [] label = "greedy" -> 2 [] label = "mst" -> 3

\* the first candidate of every distinct order (unique / ordered_keys)
UniqueCandidates(candidates) ==
  LET keep == {i \in DOMAIN candidates :
                 \A j \in 1..(i - 1) : candidates[j].order # candidates[i].order}
      pos == AscendingList(keep)
  IN [k \in 1..Len(pos) |-> candidates[pos[k]]]

\* AutoLoop keeping the most expensive candidate instead of the cheapest
RECURSIVE AutoLoop_KeepsCostliest(_, _, _, _)
AutoLoop_KeepsCostliest(dm, uniq, i, best) ==
  IF i > Len(uniq) THEN best
  ELSE LET cost == _order_cost(uniq[i].order, dm)
           take == \/ best.label = ""
                   \/ cost > best.cost
       IN AutoLoop_KeepsCostliest(dm, uniq, i + 1,
                   IF take THEN [cost |-> cost, label |-> uniq[i].label,
                                 order |-> uniq[i].order]
                   ELSE best)

RECURSIVE AutoLoop(_, _, _, _)
AutoLoop(dm, uniq, i, best) ==
  IF i > Len(uniq) THEN best
  ELSE LET cost == _order_cost(uniq[i].order, dm)
           take == \/ best.label = ""
                   \/ cost < best.cost
                   \/ (cost = best.cost /\ LabelRank(uniq[i].label) < LabelRank(best.label))
       IN AutoLoop(dm, uniq, i + 1,
                   IF take THEN [cost |-> cost, label |-> uniq[i].label,
                                 order |-> uniq[i].order]
                   ELSE best)

_choose_order(dm, candidates, environ) ==
  LET e == Lower(environ)
      uniq == UniqueCandidates(candidates)
  IN IF e \in {"baseline", "mst", "greedy"}
     THEN LET hits == {k \in DOMAIN uniq : uniq[k].label = e}
          IN IF hits # {}
             THEN [order |-> uniq[MinOf(hits)].order, label |-> uniq[MinOf(hits)].label]
             ELSE [order |-> uniq[1].order, label |-> uniq[1].label]
     ELSE LET best == AutoLoop(dm, uniq, 1, [cost |-> 0, label |-> "", order |-> <<>>])
          IN [order |-> best.order, label |-> "auto-" \o best.label]

(***************************************************************************)
(* _parse_newick / _tree_guided_order                                      *)
(***************************************************************************)
Whitespace == {" ", "\n"}

\* str.strip()
RECURSIVE StripLeft(_)
StripLeft(t) ==
  IF Len(t) > 0 /\ t[1] \in Whitespace THEN StripLeft(Tail(t)) ELSE t

RECURSIVE StripRight(_)
StripRight(t) ==
  IF Len(t) > 0 /\ t[Len(t)] \in Whitespace
  THEN StripRight(SubSeq(t, 1, Len(t) - 1)) ELSE t

Strip(t) == StripRight(StripLeft(t))

\* the first position >= p whose character is in stops (Len(text)+1 if none);
\* p is the 1-based position of Python index idx = p - 1
RECURSIVE ScanUntil(_, _, _)
ScanUntil(text, p, stops) ==
  IF p <= Len(text) /\ text[p] \notin stops THEN ScanUntil(text, p + 1, stops) ELSE p

\* parse_label_length: the label (NULL when empty) and the next position
parse_label_length(text, p) ==
  LET q == ScanUntil(text, p, {":", ",", ")", ";"})
      label == IF q = p THEN NULL ELSE SubSeq(text, p, q - 1)
      r == IF q <= Len(text) /\ text[q] = ":"
           THEN ScanUntil(text, q + 1, {",", ")", ";"})
           ELSE q
  IN [label |-> label, idx |-> r]

ParseFail == [ok |-> FALSE, idx |-> 0, node |-> [label |-> NULL, children |-> <<>>]]

RECURSIVE parse_subtree(_, _)
RECURSIVE ParseChildren(_, _, _)

\* the while-loop of parse_subtree collecting the children of one "("
ParseChildren(text, p, children) ==
  LET child == parse_subtree(text, p) IN
  IF ~child.ok THEN ParseFail
  ELSE LET q == child.idx
           sofar == Append(children, child.node)
       IN IF q > Len(text) THEN ParseFail              \* IndexError
          ELSE IF text[q] = "," THEN ParseChildren(text, q + 1, sofar)
          ELSE IF text[q] = ")"
               THEN LET lab == parse_label_length(text, q + 1)
                    IN [ok |-> TRUE, idx |-> lab.idx,
                        node |-> [label |-> lab.label, children |-> sofar]]
          ELSE ParseFail                               \* ValueError

parse_subtree(text, p) ==
  IF p > Len(text) THEN ParseFail
  ELSE IF text[p] = "(" THEN ParseChildren(text, p + 1, <<>>)
  ELSE LET lab == parse_label_length(text, p)
       IN [ok |-> TRUE, idx |-> lab.idx,
           node |-> [label |-> lab.label, children |-> <<>>]]

\* the root node, or ParseFail when the parser raises
_parse_newick(newick) ==
  LET text == Strip(newick) IN
  IF Len(text) = 0 \/ text[Len(text)] # ";" THEN ParseFail
  ELSE LET root == parse_subtree(text, 1)
       IN IF ~root.ok THEN ParseFail
          ELSE IF root.idx > Len(text) \/ text[root.idx] # ";" THEN ParseFail
          ELSE root

\* id_to_index[label] : the last row carrying that identifier, -1 on KeyError
IdToIndex(ids, label) ==
  LET hits == {k \in DOMAIN ids : ids[k] = label}
  IN IF hits = {} THEN -1 ELSE MaxOf(hits) - 1

RECURSIVE traverse(_, _, _)
RECURSIVE TraverseChildren(_, _, _, _)

\* state st = [ok, order, seen] threaded through the recursive traversal
TraverseChildren(children, i, ids, st) ==
  IF i > Len(children) THEN st
  ELSE LET r == traverse(children[i], ids, st)
       IN IF ~r.ok THEN r ELSE TraverseChildren(children, i + 1, ids, r)

traverse(node, ids, st) ==
  IF Len(node.children) > 0 THEN TraverseChildren(node.children, 1, ids, st)
  ELSE IF node.label = NULL THEN [st EXCEPT !.ok = FALSE]
  ELSE LET index == IdToIndex(ids, node.label)
       IN IF index < 0 THEN [st EXCEPT !.ok = FALSE]
          ELSE IF index \in st.seen THEN [st EXCEPT !.ok = FALSE]
          ELSE [ok |-> TRUE, order |-> Append(st.order, index),
                seen |-> st.seen \cup {index}]

\* _tree_guided_order without the final completeness checks
_tree_guided_order_NoCoverageCheck(f) ==
  LET tree_newick == f.metadata.tree_newick IN
  IF Len(Strip(tree_newick)) = 0 THEN NULL
  ELSE LET root == _parse_newick(tree_newick) IN
       IF ~root.ok THEN NULL
       ELSE LET r == traverse(root.node, f.ids,
                              [ok |-> TRUE, order |-> <<>>, seen |-> {}])
            IN IF ~r.ok THEN NULL ELSE r.order

\* _tree_guided_order: the leaf order, or NULL
_tree_guided_order(f) ==
  LET tree_newick == f.metadata.tree_newick IN
  IF Len(Strip(tree_newick)) = 0 THEN NULL
  ELSE LET root == _parse_newick(tree_newick) IN
       IF ~root.ok THEN NULL
       ELSE LET r == traverse(root.node, f.ids,
                              [ok |-> TRUE, order |-> <<>>, seen |-> {}])
            IN IF ~r.ok THEN NULL
               ELSE IF Len(r.order) # num_sequences(f) THEN NULL
               ELSE IF Range(r.order) # 0..(num_sequences(f) - 1) THEN NULL
               ELSE r.order

(***************************************************************************)
(* _compute_similarity_order                                               *)
(***************************************************************************)
Reordered(f, order) ==
  alignment_from_sequences([k \in 1..Len(order) |-> f.ids[order[k] + 1]],
                           [k \in 1..Len(order) |-> f.sequences[order[k] + 1]],
                           f.alphabet, f.metadata)

_compute_similarity_order(f, environ) ==
  LET n == num_sequences(f)
      baseline_order == RangeList(n)
  IN IF n <= 2 THEN [frame |-> f, order |-> baseline_order, label |-> "baseline"]
     ELSE LET tree_order == _tree_guided_order(f) IN
          IF tree_order # NULL
          THEN [frame |-> IF tree_order = baseline_order THEN f
                          ELSE Reordered(f, tree_order),
                order |-> tree_order, label |-> "tree"]
          ELSE IF alignment_length(f) = 0
          THEN [frame |-> f, order |-> baseline_order, label |-> "baseline"]
          ELSE LET sample_indices == _select_sample_indices(alignment_length(f), SAMPLE_CAP)
                   dm == _build_distance_matrix(f.sequences, sample_indices)
                   candidates == << [label |-> "baseline", order |-> baseline_order],
                                    [label |-> "mst", order |-> _mst_sequence_order(dm)],
                                    [label |-> "greedy", order |-> _greedy_sequence_order(dm)] >>
                   best == _choose_order(dm, candidates, environ)
               IN [frame |-> IF best.order = baseline_order THEN f
                             ELSE Reordered(f, best.order),
                   order |-> best.order, label |-> best.label]


(***************************************************************************)
(* diagnostics.checksums, compression.consensus, compression.rle           *)
(***************************************************************************)
RECURSIVE Flatten(_)
Flatten(seqs) == IF Len(seqs) = 0 THEN <<>> ELSE Head(seqs) \o Flatten(Tail(seqs))

\* SHA-256 over the concatenated rows, taken as injective on its input
alignment_checksum(sequences) == <<"sha256">> \o Flatten(sequences)

\* one ColumnProfile: the most frequent character (ties: the smaller
\* character) and the (row_index, residue) pairs of the other rows
ColumnProfile(f, col) ==
  LET rows == DOMAIN f.sequences
      count(ch) == Cardinality({i \in rows : f.sequences[i][col] = ch})
      present == {f.sequences[i][col] : i \in rows}
      consensus == CHOOSE ch \in present :
                     \A other \in present :
                       \/ count(ch) > count(other)
                       \/ (count(ch) = count(other) /\ Ord(ch) <= Ord(other))
      deviating == AscendingList({i \in rows : f.sequences[i][col] # consensus})
  IN [consensus |-> consensus,
      deviations |-> [k \in 1..Len(deviating) |->
                        <<deviating[k] - 1, f.sequences[deviating[k]][col]>>]]

collect_column_profiles(f) ==
  [col \in 1..alignment_length(f) |-> ColumnProfile(f, col)]

\* ceil(log2(n)) for n >= 1
RECURSIVE CeilLog2From(_, _)
CeilLog2From(n, k) == IF 2^k >= n THEN k ELSE CeilLog2From(n, k + 1)

BitsPerSymbol(alphabet) ==
  LET size == IF Len(alphabet) > 1 THEN Len(alphabet) ELSE 1
      bits == CeilLog2From(size, 0)
  IN IF bits > 1 THEN bits ELSE 1

\* symbol_lookup[symbol] : the 0-based index of the symbol in the alphabet
SymbolLookup(alphabet, symbol) ==
  (CHOOSE k \in DOMAIN alphabet : alphabet[k] = symbol) - 1

\* the number whose big-endian bytes are the codes packed MSB first
RECURSIVE PackValue(_, _)
PackValue(codes, bits) ==
  IF Len(codes) = 0 THEN 0
  ELSE PackValue(SubSeq(codes, 1, Len(codes) - 1), bits) * (2^bits) + codes[Len(codes)]

\* codes packed at bits_per_symbol bits each, MSB first, zero padded
PackResidues(codes, bits) ==
  LET nbits == Len(codes) * bits
      nbytes == (nbits + 7) \div 8
      value == PackValue(codes, bits) * (2^(nbytes * 8 - nbits))
  IN [k \in 1..nbytes |-> (value \div (2^(8 * (nbytes - k)))) % 256]

\* bit i%8 of byte i//8 is set iff row i deviates
PackBitmask(deviations, n) ==
  LET devrows == {deviations[k][1] : k \in DOMAIN deviations}
  IN [byte \in 1..((n + 7) \div 8) |->
        LET base == 8 * (byte - 1)
            bit(i) == IF (base + i) \in devrows THEN 2^i ELSE 0
        IN bit(0) + bit(1) + bit(2) + bit(3) + bit(4) + bit(5) + bit(6) + bit(7)]

MAX_RUN_LENGTH == 255

\* the block a column starts when it cannot extend the current one
FreshBlock(profile, n, alphabet, bits) ==
  [consensus |-> profile.consensus,
   bitmask |-> PackBitmask(profile.deviations, n),
   residues |-> PackResidues([k \in DOMAIN profile.deviations |->
                                SymbolLookup(alphabet, profile.deviations[k][2])], bits),
   run_length |-> 1]

\* the variant that extends the current block however long it has become
GroupStep_NeverSplits(profiles, i, n, alphabet, bits, blocks) ==
  IF i > 1 /\ profiles[i - 1] = profiles[i]
  THEN [blocks EXCEPT ![Len(blocks)].run_length = @ + 1]
  ELSE Append(blocks, FreshBlock(profiles[i], n, alphabet, bits))

\* one pass of the grouping loop: column i extends the current block when its
\* profile is equivalent and the block is shorter than MAX_RUN_LENGTH, and
\* starts a new block otherwise
GroupStep(profiles, i, n, alphabet, bits, blocks) ==
  IF /\ i > 1
     /\ profiles[i - 1] = profiles[i]
     /\ blocks[Len(blocks)].run_length < MAX_RUN_LENGTH
  THEN [blocks EXCEPT ![Len(blocks)].run_length = @ + 1]
  ELSE Append(blocks, FreshBlock(profiles[i], n, alphabet, bits))

\* the grouping loop of collect_run_length_blocks
RECURSIVE GroupColumns(_, _, _, _, _, _)
GroupColumns(profiles, i, n, alphabet, bits, blocks) ==
  IF i > Len(profiles) THEN blocks
  ELSE GroupColumns(profiles, i + 1, n, alphabet, bits,
                    GroupStep(profiles, i, n, alphabet, bits, blocks))

collect_run_length_blocks(profiles, n, alphabet, bits) ==
  GroupColumns(profiles, 1, n, alphabet, bits, <<>>)

(***************************************************************************)
(* compression.encoding: encode_blocks / decode_blocks                     *)
(***************************************************************************)
\* struct.pack(">H", n) and struct.pack(">I", n)
PackU16(n) == <<(n \div 256) % 256, n % 256>>

PackU32(n) == <<(n \div 16777216) % 256, (n \div 65536) % 256, (n \div 256) % 256, n % 256>>

\* struct.unpack of the big-endian field of width bytes at 0-based cursor
RECURSIVE UnpackBE(_, _, _)
UnpackBE(payload, cursor, width) ==
  IF width = 0 THEN 0
  ELSE UnpackBE(payload, cursor, width - 1) * 256 + payload[cursor + width]

\* payload[a:b] for 0-based a <= b <= len(payload)
Slice(payload, a, b) == SubSeq(payload, a + 1, b)

Zeros(n) == [k \in 1..n |-> 0]

\* bytes.startswith
StartsWith(data, prefix) ==
  /\ Len(data) >= Len(prefix)
  /\ \A k \in DOMAIN prefix : data[k] = prefix[k]

\* _trim_bitmask: the mask without its trailing zero bytes; the loop stops at
\* the last non-zero byte among the first length bytes
TrimmedLength(bitmask, length) ==
  IF \A k \in 1..length : bitmask[k] = 0 THEN 0
  ELSE CHOOSE k \in 1..length :
         bitmask[k] # 0 /\ \A later \in (k + 1)..length : bitmask[later] = 0

_trim_bitmask(bitmask) == SubSeq(bitmask, 1, TrimmedLength(bitmask, Len(bitmask)))

BlockKey(block) ==
  [consensus |-> block.consensus, bitmask |-> block.bitmask, residues |-> block.residues]

\* the Counter of _build_dictionary: distinct keys in insertion order
CounterKeys(blocks) ==
  LET first == AscendingList({i \in DOMAIN blocks :
                                \A j \in 1..(i - 1) : BlockKey(blocks[j]) # BlockKey(blocks[i])})
  IN [k \in 1..Len(first) |-> BlockKey(blocks[first[k]])]

RECURSIVE CounterFreq(_, _, _)
CounterFreq(blocks, key, i) ==
  IF i > Len(blocks) THEN 0
  ELSE (IF BlockKey(blocks[i]) = key THEN blocks[i].run_length ELSE 0)
       + CounterFreq(blocks, key, i + 1)

DICTIONARY_LIMIT == 255

\* Counter.most_common(255): descending count, equal counts in insertion order
RECURSIVE MostCommonFrom(_, _)
MostCommonFrom(keys, freq) ==
  IF Len(keys) = 0 THEN <<>>
  ELSE LET p == CHOOSE i \in DOMAIN keys :
                  /\ \A j \in DOMAIN keys : freq[keys[i]] >= freq[keys[j]]
                  /\ \A j \in 1..(i - 1) : freq[keys[j]] < freq[keys[i]]
           rest == [k \in 1..(Len(keys) - 1) |-> IF k < p THEN keys[k] ELSE keys[k + 1]]
       IN <<keys[p]>> \o MostCommonFrom(rest, freq)

MostCommon(keys, freq) ==
  LET sorted == MostCommonFrom(keys, freq)
  IN SubSeq(sorted, 1, IF Len(sorted) < DICTIONARY_LIMIT THEN Len(sorted) ELSE DICTIONARY_LIMIT)

\* is a dictionary entry for key worth its bytes (_build_dictionary's test)
Profitable(key, freq) ==
  LET mask_len == Len(_trim_bitmask(key.bitmask))
      literal_size == 1 + 1 + 1 + 1 + mask_len + 2 + Len(key.residues)
      entry_size == 1 + 1 + mask_len + 2 + Len(key.residues)
      reference_size == 1 + 1 + 1
  IN ~(freq * literal_size <= entry_size + freq * reference_size)

\* the keys that get a dictionary entry, in dictionary order
RECURSIVE KeepProfitable(_, _)
KeepProfitable(keys, freq) ==
  IF Len(keys) = 0 THEN <<>>
  ELSE (IF Profitable(keys[1], freq[keys[1]]) THEN <<keys[1]>> ELSE <<>>)
       \o KeepProfitable(Tail(keys), freq)

_build_dictionary(blocks) ==
  LET keys == CounterKeys(blocks)
      freq == [key \in Range(keys) |-> CounterFreq(blocks, key, 1)]
  IN KeepProfitable(MostCommon(keys, freq), freq)

\* the variant that gives every block the first dictionary entry
DictionaryId_FirstEntry(dictionary, key) == IF Len(dictionary) = 0 THEN -1 ELSE 0

\* dictionary_map.get(key): the 0-based dict_id, or -1
DictionaryId(dictionary, key) ==
  LET hits == {k \in DOMAIN dictionary : dictionary[k] = key}
  IN IF hits = {} THEN -1 ELSE MinOf(hits) - 1

EncodeDictEntry(key) ==
  <<Ord(key.consensus), Len(_trim_bitmask(key.bitmask))>> \o _trim_bitmask(key.bitmask)
    \o PackU16(Len(key.residues)) \o key.residues

EncodeBlock(block, dictionary) ==
  LET dict_id == DictionaryId(dictionary, BlockKey(block))
  IN IF dict_id >= 0
     THEN <<1, dict_id, block.run_length>>
     ELSE <<0, block.run_length, Ord(block.consensus), Len(_trim_bitmask(block.bitmask))>>
            \o _trim_bitmask(block.bitmask)
            \o PackU16(Len(block.residues)) \o block.residues

RECURSIVE EncodeDictEntries(_)
EncodeDictEntries(dictionary) ==
  IF Len(dictionary) = 0 THEN <<>>
  ELSE EncodeDictEntry(dictionary[1]) \o EncodeDictEntries(Tail(dictionary))

RECURSIVE EncodeBlockList(_, _)
EncodeBlockList(blocks, dictionary) ==
  IF Len(blocks) = 0 THEN <<>>
  ELSE EncodeBlock(blocks[1], dictionary) \o EncodeBlockList(Tail(blocks), dictionary)

\* payload.append(mask_len): the longest trimmed mask one byte can announce
MAX_MASK_LENGTH == 255

\* struct.pack(">H", len(residues)): the longest residues field
MAX_RESIDUES_LENGTH == 65535

\* encode_blocks: err is "" on success
encode_blocks(blocks, bitmask_bytes, bits_per_symbol) ==
  LET dictionary == _build_dictionary(blocks) IN
  IF \E i \in DOMAIN blocks : ~(1 <= blocks[i].run_length /\ blocks[i].run_length <= 255)
  THEN [err |-> "EncodingError", bytes |-> <<>>]
  ELSE IF \E i \in DOMAIN blocks : Len(_trim_bitmask(blocks[i].bitmask)) > MAX_MASK_LENGTH
  THEN [err |-> "ValueError", bytes |-> <<>>]
  ELSE IF \E i \in DOMAIN blocks : Len(blocks[i].residues) > MAX_RESIDUES_LENGTH
  THEN [err |-> "struct.error", bytes |-> <<>>]
  ELSE [err |-> "",
        bytes |-> <<Len(dictionary)>> \o EncodeDictEntries(dictionary)
                    \o PackU32(Len(blocks)) \o EncodeBlockList(blocks, dictionary)]

\* the body shared by a dictionary entry and a literal: mask and residues
\* starting at the mask-length byte; what names the truncated structure
DecodeMaskAndResidues(payload, cursor, bitmask_bytes, what) ==
  LET payload_length == Len(payload)
      mask_len == payload[cursor + 1]
      c1 == cursor + 1
      c2 == c1 + mask_len
      residues_len == UnpackBE(payload, c2, 2)
      c3 == c2 + 2
      c4 == c3 + residues_len
  IN IF c1 + mask_len > payload_length
     THEN [err |-> "DecodingError: " \o what \o " mask truncated", cursor |-> c1]
     ELSE IF c2 + 2 > payload_length
     THEN [err |-> "DecodingError: " \o what \o " residue length truncated", cursor |-> c2]
     ELSE IF c3 + residues_len > payload_length
     THEN [err |-> "DecodingError: " \o what \o " residues truncated", cursor |-> c3]
     ELSE IF bitmask_bytes - mask_len < 0
     THEN [err |-> "ValueError: negative count", cursor |-> c4]
     ELSE [err |-> "", cursor |-> c4,
           bitmask |-> Slice(payload, c1, c2) \o Zeros(bitmask_bytes - mask_len),
           residues |-> Slice(payload, c3, c4)]

RECURSIVE DecodeDictionary(_, _, _, _, _)
DecodeDictionary(payload, cursor, remaining, bitmask_bytes, dictionary) ==
  IF remaining = 0 THEN [err |-> "", cursor |-> cursor, dictionary |-> dictionary]
  ELSE IF cursor + 2 > Len(payload)
  THEN [err |-> "DecodingError: Dictionary entry truncated", cursor |-> cursor,
        dictionary |-> dictionary]
  ELSE LET body == DecodeMaskAndResidues(payload, cursor + 1, bitmask_bytes, "Dictionary")
       IN IF body.err # ""
          THEN [err |-> body.err, cursor |-> body.cursor, dictionary |-> dictionary]
          ELSE IF payload[cursor + 1] >= 128
          THEN [err |-> "UnicodeDecodeError: 'ascii' codec can't decode byte",
                cursor |-> body.cursor, dictionary |-> dictionary]
          ELSE DecodeDictionary(payload, body.cursor, remaining - 1, bitmask_bytes,
                 Append(dictionary, [consensus |-> Chr(payload[cursor + 1]),
                                     bitmask |-> body.bitmask,
                                     residues |-> body.residues]))

RECURSIVE DecodeBlockEntries(_, _, _, _, _, _)
DecodeBlockEntries(payload, cursor, remaining, bitmask_bytes, dictionary, blocks) ==
  IF remaining = 0 THEN [err |-> "", blocks |-> blocks]
  ELSE IF cursor >= Len(payload)
  THEN [err |-> "DecodingError: Block data truncated", blocks |-> <<>>]
  ELSE LET marker == payload[cursor + 1] IN
       IF marker = 1
       THEN IF cursor + 1 + 2 > Len(payload)
            THEN [err |-> "DecodingError: Dictionary block truncated", blocks |-> <<>>]
            ELSE LET dict_id == payload[cursor + 2]
                     run_length == payload[cursor + 3]
                 IN IF dict_id >= Len(dictionary)
                    THEN [err |-> "DecodingError: Dictionary index out of range",
                          blocks |-> <<>>]
                    ELSE DecodeBlockEntries(payload, cursor + 3, remaining - 1,
                           bitmask_bytes, dictionary,
                           Append(blocks, [consensus |-> dictionary[dict_id + 1].consensus,
                                           bitmask |-> dictionary[dict_id + 1].bitmask,
                                           residues |-> dictionary[dict_id + 1].residues,
                                           run_length |-> run_length]))
       ELSE IF marker = 0
       THEN IF cursor + 1 + 3 > Len(payload)
            THEN [err |-> "DecodingError: Literal block truncated", blocks |-> <<>>]
            ELSE LET run_length == payload[cursor + 2]
                     body == DecodeMaskAndResidues(payload, cursor + 3, bitmask_bytes, "Literal")
                 IN IF body.err # "" THEN [err |-> body.err, blocks |-> <<>>]
                    ELSE IF payload[cursor + 3] >= 128
                    THEN [err |-> "UnicodeDecodeError: 'ascii' codec can't decode byte",
                          blocks |-> <<>>]
                    ELSE DecodeBlockEntries(payload, body.cursor, remaining - 1,
                           bitmask_bytes, dictionary,
                           Append(blocks, [consensus |-> Chr(payload[cursor + 3]),
                                           bitmask |-> body.bitmask,
                                           residues |-> body.residues,
                                           run_length |-> run_length]))
       ELSE [err |-> "DecodingError: Unknown block marker", blocks |-> <<>>]

\* decode_blocks: err is "" on success
decode_blocks(payload, bitmask_bytes, bits_per_symbol) ==
  IF 0 >= Len(payload) THEN [err |-> "", blocks |-> <<>>]
  ELSE LET dict == DecodeDictionary(payload, 1, payload[1], bitmask_bytes, <<>>) IN
       IF dict.err # "" THEN [err |-> dict.err, blocks |-> <<>>]
       ELSE IF dict.cursor + 4 > Len(payload)
       THEN [err |-> "DecodingError: Missing block count", blocks |-> <<>>]
       ELSE DecodeBlockEntries(payload, dict.cursor + 4,
                               UnpackBE(payload, dict.cursor, 4),
                               bitmask_bytes, dict.dictionary, <<>>)

(***************************************************************************)
(* The compression libraries (zstandard, zlib, lzma, gzip)                 *)
(*                                                                         *)
(* A library call is lossless and its output length is whatever the        *)
(* library makes of the data.  lib records one behaviour of the libraries: *)
(* whether zstandard is importable and, per use, how the output length     *)
(* relates to the input length.  A compressed stream is a sequence of the  *)
(* output length whose first element carries the codec and the data.       *)
(***************************************************************************)
CompressedLength(n, delta) == IF n + delta < 1 THEN 1 ELSE n + delta

Stream(codec, data, size) ==
  <<[codec |-> codec, data |-> data]>>
    \o [k \in 1..(size - 1) |-> [codec |-> "pad", data |-> <<>>]]

LibCompress(codec, data, delta) == Stream(codec, data, CompressedLength(Len(data), delta))

\* err is "" when stream is a whole stream of this codec
LibDecompress(codec, stream) ==
  IF Len(stream) = 0 THEN [err |-> codec \o " error: empty input", data |-> <<>>]
  ELSE IF stream[1].codec # codec
  THEN [err |-> codec \o " error: not a " \o codec \o " stream", data |-> <<>>]
  ELSE [err |-> "", data |-> stream[1].data]

(***************************************************************************)
(* Sequence-ID block (pipeline.py)                                         *)
(***************************************************************************)
SEQ_ID_MAGIC == <<Ord("E"), Ord("C"), Ord("I"), Ord("D")>>

SEQ_ID_VERSION == 2

RECURSIVE _encode_varint(_)
\* the variant that writes the low seven bits and stops
_encode_varint_OneByte(value) == <<value % 128>>

_encode_varint(value) ==
  IF value \div 128 # 0
  THEN <<(value % 128) + 128>> \o _encode_varint(value \div 128)
  ELSE <<value % 128>>

RECURSIVE Pow2(_)
Pow2(k) == IF k = 0 THEN 1 ELSE 2 * Pow2(k - 1)

VARINT_MAX_SHIFT == 56

RECURSIVE DecodeVarintLoop(_, _, _, _)
DecodeVarintLoop(buffer, cursor, shift, result) ==
  IF cursor >= Len(buffer)
  THEN [err |-> "ValueError: Unexpected end of data while decoding varint",
        value |-> 0, cursor |-> cursor]
  ELSE LET byte == buffer[cursor + 1]
           r == result + (byte % 128) * Pow2(shift)
       IN IF byte < 128 THEN [err |-> "", value |-> r, cursor |-> cursor + 1]
          ELSE IF shift + 7 > VARINT_MAX_SHIFT
          THEN [err |-> "ValueError: Varint too long", value |-> 0, cursor |-> cursor + 1]
          ELSE DecodeVarintLoop(buffer, cursor + 1, shift + 7, r)

_decode_varint(buffer, cursor) == DecodeVarintLoop(buffer, cursor, 0, 0)

\* str.encode("utf-8") and bytes.decode("utf-8") over the characters in use
EncodeText(text) == [k \in 1..Len(text) |-> Ord(text[k])]

DecodeText(bytes) == [k \in 1..Len(bytes) |-> Chr(bytes[k])]

EncodeName(name) == _encode_varint(Len(name)) \o EncodeText(name)

RECURSIVE EncodeNames(_)
EncodeNames(names) ==
  IF Len(names) = 0 THEN <<>>
  ELSE EncodeName(names[1]) \o EncodeNames(Tail(names))

_encode_sequence_ids(ids, lib) ==
  LET plain == _encode_varint(Len(ids)) \o EncodeNames(ids)
      zstd_compressed == LibCompress("zstd", plain, lib.ids_zstd)
      zstd_wins == lib.zstd_available /\ Len(zstd_compressed) + 1 < Len(plain)
      zlib_compressed == LibCompress("zlib", plain, lib.ids_zlib)
      zlib_wins == ~zstd_wins /\ Len(zlib_compressed) + 1 < Len(plain)
      mode == IF zstd_wins THEN 1 ELSE IF zlib_wins THEN 2 ELSE 0
      payload_bytes == IF zstd_wins THEN zstd_compressed
                       ELSE IF zlib_wins THEN zlib_compressed ELSE plain
      encoded == <<mode>> \o payload_bytes
  IN SEQ_ID_MAGIC \o <<SEQ_ID_VERSION>> \o _encode_varint(Len(encoded)) \o encoded

\* the loop reading count length-prefixed names from view, none of them
\* running past limit
RECURSIVE DecodeNames(_, _, _, _, _, _)
DecodeNames(view, cursor, count, limit, ids, what) ==
  IF count = 0 THEN [err |-> "", cursor |-> cursor, ids |-> ids]
  ELSE LET name_len == _decode_varint(view, cursor) IN
       IF name_len.err # "" THEN [err |-> name_len.err, cursor |-> cursor, ids |-> ids]
       ELSE IF name_len.cursor + name_len.value > limit
       THEN [err |-> "ValueError: Sequence ID entry exceeds " \o what \o " block length",
             cursor |-> name_len.cursor, ids |-> ids]
       ELSE DecodeNames(view, name_len.cursor + name_len.value, count - 1, limit,
                        Append(ids, DecodeText(Slice(view, name_len.cursor,
                                                     name_len.cursor + name_len.value))),
                        what)

DecodeIdsFail(message) == [err |-> message, ids |-> <<>>, remaining |-> <<>>]

\* the count and the names of the identifier list starting at start
DecodeIdEntries(view, start, limit, what) ==
  LET count == _decode_varint(view, start)
  IN IF count.err # "" THEN [err |-> count.err, ids |-> <<>>, cursor |-> start]
     ELSE DecodeNames(view, count.cursor, count.value, limit, <<>>, what)

\* the identifier list of a version 2 block, from its decompressed bytes
DecodeIdsOutput(output, buffer, end) ==
  IF output.err # "" THEN DecodeIdsFail(output.err)
  ELSE LET names == DecodeIdEntries(output.data, 0, Len(output.data), "decoded")
       IN IF names.err # "" THEN DecodeIdsFail(names.err)
          ELSE [err |-> "", ids |-> names.ids,
                remaining |-> Slice(buffer, end, Len(buffer))]

_decode_sequence_ids(buffer, lib) ==
  IF Len(buffer) < Len(SEQ_ID_MAGIC) + 1
  THEN DecodeIdsFail("ValueError: Sequence ID block truncated")
  ELSE IF SubSeq(buffer, 1, Len(SEQ_ID_MAGIC)) # SEQ_ID_MAGIC
  THEN DecodeIdsFail("ValueError: Sequence ID magic missing")
  ELSE
  LET version == buffer[Len(SEQ_ID_MAGIC) + 1]
      block_length == _decode_varint(buffer, Len(SEQ_ID_MAGIC) + 1)
      cursor == block_length.cursor
      end == cursor + block_length.value
  IN
  IF block_length.err # "" THEN DecodeIdsFail(block_length.err)
  ELSE IF end > Len(buffer)
  THEN DecodeIdsFail("ValueError: Sequence ID block length exceeds payload size")
  ELSE IF version = 1
  THEN LET names == DecodeIdEntries(buffer, cursor, end, "declared")
       IN IF names.err # "" THEN DecodeIdsFail(names.err)
          ELSE IF names.cursor # end
          THEN DecodeIdsFail("ValueError: Sequence ID block contains trailing data")
          ELSE [err |-> "", ids |-> names.ids,
                remaining |-> Slice(buffer, end, Len(buffer))]
  ELSE IF version = 2
  THEN IF cursor >= end
       THEN DecodeIdsFail("ValueError: Sequence ID block missing mode byte")
       ELSE
       LET mode == buffer[cursor + 1]
           encoded == Slice(buffer, cursor + 1, end)
       IN DecodeIdsOutput(
            IF mode = 0 THEN [err |-> "", data |-> encoded]
            ELSE IF mode = 1
            THEN IF ~lib.zstd_available
                 THEN [err |-> "RuntimeError: zstandard module not available",
                       data |-> <<>>]
                 ELSE LibDecompress("zstd", encoded)
            ELSE IF mode = 2 THEN LibDecompress("zlib", encoded)
            ELSE [err |-> "ValueError: Unsupported sequence ID compression mode",
                  data |-> <<>>],
            buffer, end)
  ELSE DecodeIdsFail("ValueError: Unsupported sequence ID block version")

(***************************************************************************)
(* Metadata dictionaries                                                   *)
(***************************************************************************)
DictGet(d, key, default) == IF key \in DOMAIN d THEN d[key] ELSE default

DictSet(d, key, value) == [k \in DOMAIN d \cup {key} |-> IF k = key THEN value ELSE d[k]]

DictPop(d, key) == [k \in DOMAIN d \ {key} |-> d[k]]

(***************************************************************************)
(* FASTA form and gzip fallback (pipeline.py)                              *)
(***************************************************************************)
RECURSIVE FastaText(_, _, _)
FastaText(ids, sequences, i) ==
  IF i > Len(ids) THEN <<>>
  ELSE <<">">> \o ids[i] \o <<"\n">> \o sequences[i] \o <<"\n">>
       \o FastaText(ids, sequences, i + 1)

_alignment_to_fasta_bytes(f) == EncodeText(FastaText(f.ids, f.sequences, 1))

\* str.splitlines() on "\n": the lines, without a line for a final terminator
RECURSIVE SplitLines(_, _, _)
SplitLines(text, i, current) ==
  IF i > Len(text) THEN (IF Len(current) = 0 THEN <<>> ELSE <<current>>)
  ELSE IF text[i] = "\n" THEN <<current>> \o SplitLines(text, i + 1, <<>>)
  ELSE SplitLines(text, i + 1, Append(current, text[i]))

\* the loop of _parse_fasta_bytes; st is [ids, sequences, has_id, current_seq]
RECURSIVE ParseFastaLines(_, _, _)
ParseFastaLines(lines, i, st) ==
  IF i > Len(lines)
  THEN (IF st.has_id THEN [st EXCEPT !.sequences = Append(@, st.current_seq)] ELSE st)
  ELSE LET line == Strip(lines[i]) IN
       IF Len(line) = 0 THEN ParseFastaLines(lines, i + 1, st)
       ELSE IF line[1] = ">"
       THEN ParseFastaLines(lines, i + 1,
              [ids |-> Append(st.ids, Tail(line)),
               sequences |-> IF st.has_id THEN Append(st.sequences, st.current_seq)
                             ELSE st.sequences,
               has_id |-> TRUE,
               current_seq |-> <<>>])
       ELSE ParseFastaLines(lines, i + 1, [st EXCEPT !.current_seq = @ \o line])

_parse_fasta_bytes(data) ==
  LET st == ParseFastaLines(SplitLines(DecodeText(data), 1, <<>>), 1,
                            [ids |-> <<>>, sequences |-> <<>>, has_id |-> FALSE,
                             current_seq |-> <<>>])
  IN alignment_from_sequences(st.ids, st.sequences, NULL, <<>>)

\* the variant that never replaces the payload
_maybe_use_gzip_fallback_Never(original_frame, payload, metadata, lib) ==
  [payload |-> payload, metadata |-> metadata]

\* the variant that drops the one-byte margin of the size test
_maybe_use_gzip_fallback_NoMargin(original_frame, payload, metadata, lib) ==
  LET fasta_bytes == _alignment_to_fasta_bytes(original_frame)
      gzip_payload ==
        Stream("gzip", fasta_bytes,
               CompressedLength(IF lib.gzip.base = "payload" THEN Len(payload)
                                ELSE Len(fasta_bytes), lib.gzip.delta))
  IN IF Len(gzip_payload) < Len(payload) /\ Len(gzip_payload) < Len(fasta_bytes)
     THEN LET updated ==
                DictSet(DictSet(DictSet(DictSet(DictPop(metadata, "sequence_permutation"),
                  "fallback", [type |-> "gzip",
                               format |-> DictGet(metadata, "source_format", "fasta")]),
                  "payload_encoding", "gzip"),
                  "payload_encoded_bytes", Len(gzip_payload)),
                  "payload_raw_bytes", Len(fasta_bytes))
          IN [payload |-> gzip_payload, metadata |-> updated]
     ELSE [payload |-> payload, metadata |-> metadata]

\* the variant that leaves the permutation in the fallback metadata
_maybe_use_gzip_fallback_KeepsPermutation(original_frame, payload, metadata, lib) ==
  LET fasta_bytes == _alignment_to_fasta_bytes(original_frame)
      gzip_payload ==
        Stream("gzip", fasta_bytes,
               CompressedLength(IF lib.gzip.base = "payload" THEN Len(payload)
                                ELSE Len(fasta_bytes), lib.gzip.delta))
  IN IF Len(gzip_payload) + 1 < Len(payload) /\ Len(gzip_payload) < Len(fasta_bytes)
     THEN LET updated ==
                DictSet(DictSet(DictSet(DictSet(metadata,
                  "fallback", [type |-> "gzip",
                               format |-> DictGet(metadata, "source_format", "fasta")]),
                  "payload_encoding", "gzip"),
                  "payload_encoded_bytes", Len(gzip_payload)),
                  "payload_raw_bytes", Len(fasta_bytes))
          IN [payload |-> gzip_payload, metadata |-> updated]
     ELSE [payload |-> payload, metadata |-> metadata]

_maybe_use_gzip_fallback(original_frame, payload, metadata, lib) ==
  LET fasta_bytes == _alignment_to_fasta_bytes(original_frame)
      gzip_payload ==
        Stream("gzip", fasta_bytes,
               CompressedLength(IF lib.gzip.base = "payload" THEN Len(payload)
                                ELSE Len(fasta_bytes), lib.gzip.delta))
  IN IF Len(gzip_payload) + 1 < Len(payload) /\ Len(gzip_payload) < Len(fasta_bytes)
     THEN LET updated ==
                DictSet(DictSet(DictSet(DictSet(DictPop(metadata, "sequence_permutation"),
                  "fallback", [type |-> "gzip",
                               format |-> DictGet(metadata, "source_format", "fasta")]),
                  "payload_encoding", "gzip"),
                  "payload_encoded_bytes", Len(gzip_payload)),
                  "payload_raw_bytes", Len(fasta_bytes))
          IN [payload |-> gzip_payload, metadata |-> updated]
     ELSE [payload |-> payload, metadata |-> metadata]

DecompressFail(message, metadata) ==
  [err |-> message, frame |-> [ids |-> <<>>], metadata |-> metadata]

_decompress_fallback(payload, metadata) ==
  LET info == DictGet(metadata, "fallback", [none |-> TRUE])
      fallback_type == DictGet(info, "type", "None")
      data == LibDecompress("gzip", payload)
      parsed == _parse_fasta_bytes(data.data)
  IN IF fallback_type = "gzip"
     THEN IF data.err # "" THEN DecompressFail(data.err, metadata)
          ELSE [err |-> "",
                frame |-> [parsed EXCEPT !.metadata =
                             DictSet(parsed.metadata, "source_format",
                                     DictGet(info, "format", "fasta"))],
                metadata |-> metadata]
     ELSE DecompressFail("ValueError: Unsupported fallback type", metadata)

(***************************************************************************)
(* compress_alignment / decompress_alignment (pipeline.py)                 *)
(***************************************************************************)
\* config.FORMAT_VERSION
FORMAT_VERSION == "0.1.0"

\* the variant that keeps the uncompressed candidate whatever the others weigh
MinCandidate_AlwaysFirst(candidates) == candidates[1]

\* the variant that settles a tie in length by the shorter measured time
MinCandidate_FastestOfShortest(candidates) ==
  candidates[CHOOSE i \in DOMAIN candidates :
               \A j \in DOMAIN candidates :
                 \/ Len(candidates[i].bytes) < Len(candidates[j].bytes)
                 \/ /\ Len(candidates[i].bytes) = Len(candidates[j].bytes)
                    /\ \/ candidates[i].seconds < candidates[j].seconds
                       \/ candidates[i].seconds = candidates[j].seconds /\ i <= j]

\* min(payload_candidates, key=lambda item: len(item[1])): the first candidate
\* of minimal length
MinCandidate(candidates) ==
  candidates[CHOOSE i \in DOMAIN candidates :
               /\ \A j \in DOMAIN candidates : Len(candidates[i].bytes) <= Len(candidates[j].bytes)
               /\ \A j \in 1..(i - 1) : Len(candidates[j].bytes) > Len(candidates[i].bytes)]

\* the variant that checksums the rows as the optimizer ordered them
ChecksumFrame_Reordered(original_frame, ordered_frame) == ordered_frame

\* the frame whose rows compress_alignment checksums
ChecksumFrame(original_frame, ordered_frame) == original_frame

\* the (tag, bytes, seconds) candidates in the order compress_alignment appends
\* them; seconds is the perf_counter time measured around each compressor
PayloadCandidates(raw_payload, lib) ==
  <<[encoding |-> "raw", bytes |-> raw_payload, seconds |-> 0]>>
    \o (IF lib.zstd_available
        THEN <<[encoding |-> "zstd", bytes |-> LibCompress("zstd", raw_payload, lib.zstd),
                seconds |-> lib.seconds.zstd]>>
        ELSE <<>>)
    \o <<[encoding |-> "zlib", bytes |-> LibCompress("zlib", raw_payload, lib.zlib),
          seconds |-> lib.seconds.zlib],
         [encoding |-> "xz", bytes |-> LibCompress("xz", raw_payload, lib.xz),
          seconds |-> lib.seconds.xz]>>

\* the payload contest, the metadata and the fallback of compress_alignment
SelectPayload(original_frame, reorder, column_profiles, run_length_blocks, raw_payload, lib) ==
  LET ordered == reorder.frame
      permutation == reorder.order
      permutation_changed == permutation # RangeList(num_sequences(ordered))
      checksum_value == alignment_checksum(ChecksumFrame(original_frame, ordered).sequences)
      best == MinCandidate(PayloadCandidates(raw_payload, lib))
      max_run_length == IF Len(run_length_blocks) = 0 THEN 0
                        ELSE MaxOf({run_length_blocks[i].run_length :
                                      i \in DOMAIN run_length_blocks})
      deviation_columns == Cardinality({i \in DOMAIN column_profiles :
                                          Len(column_profiles[i].deviations) > 0})
      metadata ==
        [format_version |-> FORMAT_VERSION,
         codec |-> "ecomp",
         num_sequences |-> num_sequences(ordered),
         alignment_length |-> alignment_length(ordered),
         alphabet |-> ordered.alphabet,
         source_format |-> DictGet(ordered.metadata, "source_format", "unknown"),
         checksum_sha256 |-> checksum_value,
         run_length_blocks |-> Len(run_length_blocks),
         max_run_length |-> max_run_length,
         columns_with_deviations |-> deviation_columns,
         bitmask_bytes |-> (num_sequences(ordered) + 7) \div 8,
         bits_per_symbol |-> BitsPerSymbol(ordered.alphabet),
         payload_encoding |-> best.encoding,
         payload_encoded_bytes |-> Len(best.bytes),
         payload_raw_bytes |-> Len(raw_payload),
         sequence_id_codec |-> "inline",
         ordering_strategy |-> reorder.label]
      with_permutation == IF permutation_changed
                          THEN DictSet(metadata, "sequence_permutation", permutation)
                          ELSE metadata
      result == _maybe_use_gzip_fallback(original_frame, best.bytes,
                                         DictPop(with_permutation, "sequence_ids"), lib)
  IN [err |-> "", payload |-> result.payload, metadata |-> result.metadata]

\* the run-length blocks, the block stream and the identifier block of the
\* ordered frame
EncodePayload(original_frame, reorder, column_profiles, lib) ==
  LET ordered == reorder.frame
      alphabet == ordered.alphabet
      bits_per_symbol == BitsPerSymbol(alphabet)
      run_length_blocks == collect_run_length_blocks(column_profiles, num_sequences(ordered),
                                                     alphabet, bits_per_symbol)
      bitmask_bytes == (num_sequences(ordered) + 7) \div 8
      run_length_payload == encode_blocks(run_length_blocks, bitmask_bytes, bits_per_symbol)
      seq_id_block == _encode_sequence_ids(ordered.ids, lib)
  IN IF run_length_payload.err # ""
     THEN [err |-> run_length_payload.err, payload |-> <<>>, metadata |-> [codec |-> ""]]
     ELSE SelectPayload(original_frame, reorder, column_profiles, run_length_blocks,
                        seq_id_block \o run_length_payload.bytes, lib)

\* the column profiles of the frame the optimizer returns
CompressOrdered(original_frame, reorder, lib) ==
  EncodePayload(original_frame, reorder, collect_column_profiles(reorder.frame), lib)

\* err is "" on success
compress_alignment(f, environ, lib) ==
  CompressOrdered(f, _compute_similarity_order(f, environ), lib)

\* _iter_deviation_indices: the rows whose bit is set, ascending
_iter_deviation_indices(bitmask, n) ==
  AscendingList({seq_index \in 0..(n - 1) :
                   (bitmask[(seq_index \div 8) + 1] \div Pow2(seq_index % 8)) % 2 = 1})

\* the loop of _decode_residues; pos is the number of bytes consumed
RECURSIVE DecodeResiduesLoop(_, _, _, _, _, _, _)
DecodeResiduesLoop(data, pos, buffer, bits_in_buffer, count, bits_per_symbol, values) ==
  IF Len(values) >= count THEN [err |-> "", values |-> values]
  ELSE IF bits_in_buffer < bits_per_symbol
  THEN IF pos >= Len(data)
       THEN [err |-> "ValueError: Insufficient residue data during decode", values |-> <<>>]
       ELSE DecodeResiduesLoop(data, pos + 1, buffer * 256 + data[pos + 1],
                               bits_in_buffer + 8, count, bits_per_symbol, values)
  ELSE LET shift == bits_in_buffer - bits_per_symbol
           value == (buffer \div Pow2(shift)) % Pow2(bits_per_symbol)
       IN DecodeResiduesLoop(data, pos, buffer % Pow2(shift), shift, count,
                             bits_per_symbol, Append(values, value))

_decode_residues(data, count, bits_per_symbol, alphabet) ==
  IF count = 0 THEN [err |-> "", residues |-> <<>>]
  ELSE LET decoded == DecodeResiduesLoop(data, 0, 0, 0, count, bits_per_symbol, <<>>) IN
       IF decoded.err # "" THEN [err |-> decoded.err, residues |-> <<>>]
       ELSE IF \E k \in DOMAIN decoded.values : decoded.values[k] >= Len(alphabet)
       THEN [err |-> "ValueError: Residue code exceeds alphabet size", residues |-> <<>>]
       ELSE [err |-> "",
             residues |-> [k \in DOMAIN decoded.values |-> alphabet[decoded.values[k] + 1]]]

\* one decoded column: the consensus in every row, deviations written over it
DecodeColumn(block, num_rows, bits_per_symbol, symbol_table) ==
  LET residue_indices == _iter_deviation_indices(block.bitmask, num_rows)
      decoded == _decode_residues(block.residues, Len(residue_indices), bits_per_symbol,
                                  symbol_table)
  IN IF decoded.err # "" THEN [err |-> decoded.err, column |-> <<>>]
     ELSE [err |-> "",
           column |-> [r \in 1..num_rows |->
                         IF \E k \in DOMAIN residue_indices : residue_indices[k] = r - 1
                         THEN decoded.residues[CHOOSE k \in DOMAIN residue_indices :
                                                 residue_indices[k] = r - 1]
                         ELSE block.consensus]]

\* the variant of the block loop that never compares the column index with
\* the expected length
RECURSIVE DecodeColumns_NoLimit(_, _, _, _, _, _, _, _)
DecodeColumns_NoLimit(blocks, i, repeat, expected_columns, num_rows, bits_per_symbol, symbol_table, columns) ==
  IF i > Len(blocks) THEN [err |-> "", columns |-> columns]
  ELSE IF repeat >= blocks[i].run_length
  THEN DecodeColumns_NoLimit(blocks, i + 1, 0, expected_columns, num_rows, bits_per_symbol,
                             symbol_table, columns)
  ELSE LET col == DecodeColumn(blocks[i], num_rows, bits_per_symbol, symbol_table) IN
       IF col.err # "" THEN [err |-> col.err, columns |-> columns]
       ELSE DecodeColumns_NoLimit(blocks, i, repeat + 1, expected_columns, num_rows,
                                  bits_per_symbol, symbol_table, Append(columns, col.column))

\* the block loop of decompress_alignment; columns holds the columns so far
RECURSIVE DecodeColumns(_, _, _, _, _, _, _, _)
DecodeColumns(blocks, i, repeat, expected_columns, num_rows, bits_per_symbol, symbol_table, columns) ==
  IF i > Len(blocks) THEN [err |-> "", columns |-> columns]
  ELSE IF repeat >= blocks[i].run_length
  THEN DecodeColumns(blocks, i + 1, 0, expected_columns, num_rows, bits_per_symbol,
                     symbol_table, columns)
  ELSE IF Len(columns) >= expected_columns
  THEN [err |-> "ValueError: Decoded columns exceed expected alignment length",
        columns |-> columns]
  ELSE LET col == DecodeColumn(blocks[i], num_rows, bits_per_symbol, symbol_table) IN
       IF col.err # "" THEN [err |-> col.err, columns |-> columns]
       ELSE DecodeColumns(blocks, i, repeat + 1, expected_columns, num_rows,
                          bits_per_symbol, symbol_table, Append(columns, col.column))

\* the variant that leaves every decoded row where it was stored
InversePermutation_Identity(permutation) == [idx \in 1..Len(permutation) |-> idx - 1]

\* the variant that applies the stored permutation as if it were its inverse
InversePermutation_Forward(permutation) == permutation

\* inverse[original_index] = new_pos
InversePermutation(permutation) ==
  [idx \in 1..Len(permutation) |->
     (CHOOSE new_pos \in DOMAIN permutation : permutation[new_pos] = idx - 1) - 1]

\* the block stream decoded into rows, and the stored permutation undone;
\* metadata_after is the caller's dictionary once the identifiers are known
ReconstructFrame(payload_data, sequence_ids, metadata, metadata_after) ==
  LET expected_columns == metadata["alignment_length"]
      num_rows == metadata["num_sequences"]
      alphabet == DictGet(metadata, "alphabet", <<>>)
      bitmask_bytes == DictGet(metadata, "bitmask_bytes", 0)
      given_bits == DictGet(metadata, "bits_per_symbol", 0)
      bits_per_symbol == IF given_bits <= 0 THEN BitsPerSymbol(alphabet) ELSE given_bits
      blocks == decode_blocks(payload_data, bitmask_bytes, bits_per_symbol)
      decoded == DecodeColumns(blocks.blocks, 1, 0, expected_columns, num_rows,
                               bits_per_symbol, alphabet, <<>>)
      reconstructed == [r \in 1..num_rows |->
                          [c \in 1..expected_columns |-> decoded.columns[c][r]]]
      permutation == DictGet(metadata, "sequence_permutation", <<>>)
      inverse == InversePermutation(permutation)
      restored_rows == IF Len(permutation) > 0
                       THEN [k \in 1..Len(inverse) |-> reconstructed[inverse[k] + 1]]
                       ELSE reconstructed
      restored_ids == IF Len(permutation) > 0
                      THEN [k \in 1..Len(inverse) |-> sequence_ids[inverse[k] + 1]]
                      ELSE sequence_ids
  IN
  IF Len(sequence_ids) # num_rows
  THEN DecompressFail("ValueError: Metadata sequence count does not match sequence IDs provided",
                      metadata_after)
  ELSE IF blocks.err # "" THEN DecompressFail(blocks.err, metadata_after)
  ELSE IF decoded.err # "" THEN DecompressFail(decoded.err, metadata_after)
  ELSE IF Len(decoded.columns) # expected_columns
  THEN DecompressFail("ValueError: Decoded columns do not match expected length",
                      metadata_after)
  ELSE [err |-> "",
        frame |-> alignment_from_sequences(
                    restored_ids, restored_rows, alphabet,
                    [source_format |-> DictGet(metadata, "source_format", "unknown")]),
        metadata |-> metadata_after]

\* err is "" on success; metadata is the caller's dictionary after the call
decompress_alignment(payload, metadata, lib) ==
  IF "fallback" \in DOMAIN metadata THEN _decompress_fallback(payload, metadata)
  ELSE
  LET num_rows == metadata["num_sequences"]
      has_ids == "sequence_ids" \in DOMAIN metadata
      alphabet == DictGet(metadata, "alphabet", <<>>)
      bitmask_bytes == DictGet(metadata, "bitmask_bytes", 0)
      given_bits == DictGet(metadata, "bits_per_symbol", 0)
      payload_encoding == DictGet(metadata, "payload_encoding", "raw")
      decoded_payload ==
        IF payload_encoding = "zstd"
        THEN IF ~lib.zstd_available
             THEN [err |-> "RuntimeError: zstandard module not available", data |-> <<>>]
             ELSE LibDecompress("zstd", payload)
        ELSE IF payload_encoding = "xz" THEN LibDecompress("xz", payload)
        ELSE IF payload_encoding = "zlib" THEN LibDecompress("zlib", payload)
        ELSE IF payload_encoding = "raw" THEN [err |-> "", data |-> payload]
        ELSE [err |-> "ValueError: Unsupported payload encoding", data |-> <<>>]
      has_block == StartsWith(decoded_payload.data, SEQ_ID_MAGIC)
      id_block == _decode_sequence_ids(decoded_payload.data, lib)
  IN
  IF has_ids /\ Len(metadata["sequence_ids"]) # num_rows
  THEN DecompressFail("ValueError: Metadata sequence count does not match sequence IDs provided",
                      metadata)
  ELSE IF bitmask_bytes <= 0
  THEN DecompressFail("ValueError: Metadata missing valid 'bitmask_bytes' entry", metadata)
  ELSE IF given_bits <= 0 /\ Len(alphabet) = 0
  THEN DecompressFail("ValueError: Metadata missing valid 'bits_per_symbol' entry", metadata)
  ELSE IF decoded_payload.err # "" THEN DecompressFail(decoded_payload.err, metadata)
  ELSE IF has_block /\ id_block.err # "" THEN DecompressFail(id_block.err, metadata)
  ELSE IF has_block /\ has_ids /\ metadata["sequence_ids"] # id_block.ids
  THEN DecompressFail("ValueError: Sequence IDs mismatch between metadata and payload",
                      metadata)
  ELSE IF ~has_block /\ ~has_ids
  THEN DecompressFail("ValueError: Metadata missing sequence identifiers", metadata)
  ELSE ReconstructFrame(IF has_block THEN id_block.remaining ELSE decoded_payload.data,
                        IF has_ids THEN metadata["sequence_ids"] ELSE id_block.ids,
                        metadata,
                        IF has_block /\ ~has_ids
                        THEN DictSet(metadata, "sequence_ids", id_block.ids)
                        ELSE metadata)

(***************************************************************************)
(* storage.py and the file-level API (__init__.py)                         *)
(***************************************************************************)
\* config.HEADER_MAGIC, config.FORMAT_VERSION_TUPLE
HEADER_MAGIC == <<Ord("E"), Ord("C"), Ord("M"), Ord("P")>>

FORMAT_VERSION_TUPLE == <<0, 1, 0>>

\* struct.calcsize(HEADER_STRUCT): magic, three version bytes, payload length
HEADER_SIZE == Len(HEADER_MAGIC) + Len(FORMAT_VERSION_TUPLE) + Len(PackU32(0))

METADATA_COMPRESSED_MAGIC == <<Ord("E"), Ord("C"), Ord("M"), Ord("Z")>>

METADATA_CODEC_VERSION == 1

write_payload(payload) == HEADER_MAGIC \o FORMAT_VERSION_TUPLE \o PackU32(Len(payload)) \o payload

\* the variant that returns whatever follows the header without validating
read_payload_Unvalidated(data) ==
  [err |-> "", payload |-> SubSeq(data, HEADER_SIZE + 1, Len(data))]

read_payload(data) ==
  IF Len(data) < HEADER_SIZE
  THEN [err |-> "ValueError: File is too short to be a valid .ecomp payload", payload |-> <<>>]
  ELSE IF SubSeq(data, 1, Len(HEADER_MAGIC)) # HEADER_MAGIC
  THEN [err |-> "ValueError: Invalid .ecomp magic header", payload |-> <<>>]
  ELSE IF Len(data) - HEADER_SIZE # UnpackBE(data, HEADER_SIZE - 4, 4)
  THEN [err |-> "ValueError: Payload length does not match header metadata", payload |-> <<>>]
  ELSE [err |-> "", payload |-> Slice(data, HEADER_SIZE, Len(data))]

\* the "key":value members of a dictionary, one token each, in the order
\* json.dumps(sort_keys=True) writes them
RECURSIVE JsonMembers(_, _)
JsonMembers(metadata, keys) ==
  IF keys = {} THEN <<>>
  ELSE LET key == CHOOSE k \in keys : TRUE
       IN <<[codec |-> "json", key |-> key, value |-> metadata[key]]>>
            \o JsonMembers(metadata, keys \ {key})

\* json.dumps(metadata, sort_keys=True, separators=(",", ":")).encode("utf-8")
JsonBytes(metadata) ==
  <<Ord("{")>> \o JsonMembers(metadata, DOMAIN metadata) \o <<Ord("}")>>

\* the variant that keeps only the keys compress_alignment itself writes
JsonObject_KnownKeysOnly(members) ==
  [key \in {members[i].key : i \in DOMAIN members}
            \cap {"format_version", "codec", "num_sequences", "alignment_length",
                  "alphabet", "source_format", "checksum_sha256", "payload_encoding"} |->
     members[CHOOSE i \in DOMAIN members : members[i].key = key].value]

\* the dictionary json.loads builds from the members of an object: one entry
\* per key, the last member of a key giving its value
JsonObject(members) ==
  [key \in {members[i].key : i \in DOMAIN members} |->
     members[CHOOSE i \in DOMAIN members :
               /\ members[i].key = key
               /\ \A j \in DOMAIN members : members[j].key = key => j <= i].value]

\* json.loads(json_bytes.decode("utf-8")): white space after the object is
\* skipped
JsonLoads(text) ==
  LET body == IF Len(text) > 0 /\ text[Len(text)] = Ord("\n")
              THEN SubSeq(text, 1, Len(text) - 1) ELSE text
  IN IF Len(body) >= 2 /\ body[1] = Ord("{") /\ body[Len(body)] = Ord("}")
     THEN [err |-> "", data |-> JsonObject(SubSeq(body, 2, Len(body) - 1))]
     ELSE [err |-> "JSONDecodeError", data |-> <<>>]

write_metadata(metadata, lib) ==
  LET json_bytes == JsonBytes(metadata)
      zlib_bytes == LibCompress("zlib", json_bytes, lib.metadata_zlib)
      use_compressed == Len(zlib_bytes) + Len(METADATA_COMPRESSED_MAGIC) + 1 < Len(json_bytes)
  IN IF use_compressed
     THEN METADATA_COMPRESSED_MAGIC \o <<METADATA_CODEC_VERSION>> \o zlib_bytes
     ELSE json_bytes \o <<Ord("\n")>>

read_metadata(data) ==
  IF StartsWith(data, METADATA_COMPRESSED_MAGIC)
  THEN IF Len(data) < Len(METADATA_COMPRESSED_MAGIC) + 1
       THEN [err |-> "ValueError: Compressed metadata header truncated", data |-> <<>>]
       ELSE IF data[Len(METADATA_COMPRESSED_MAGIC) + 1] # METADATA_CODEC_VERSION
       THEN [err |-> "ValueError: Unsupported compressed metadata version", data |-> <<>>]
       ELSE LET json_bytes ==
                  LibDecompress("zlib", Slice(data, Len(METADATA_COMPRESSED_MAGIC) + 1,
                                              Len(data)))
            IN IF json_bytes.err # "" THEN json_bytes ELSE JsonLoads(json_bytes.data)
  ELSE JsonLoads(data)

\* the variant whose validation never reports a mismatch
ChecksumMismatch_Never(expected, checksum) == FALSE

\* decompress_file's test: expected and checksum != expected
ChecksumMismatch(expected, checksum) == Len(expected) > 0 /\ checksum # expected

\* the checksum validation and the write of decompress_file, given what
\* decompress_alignment returned
ValidateAndWrite(result, metadata, files, validate_checksum) ==
  LET checksum == alignment_checksum(result.frame.sequences)
      expected == DictGet(metadata, "checksum_sha256", <<>>)
  IN IF result.err # "" THEN [err |-> result.err, output |-> files.output]
     ELSE IF validate_checksum /\ ChecksumMismatch(expected, checksum)
     THEN [err |-> "ValueError: Checksum mismatch after decompression",
           output |-> files.output]
     ELSE [err |-> "", output |-> [ids |-> result.frame.ids,
                                   sequences |-> result.frame.sequences]]

\* what decompress_file does with the files on disk: err is "" when the
\* alignment was written, and output is the alignment file afterwards
decompress_file(files, validate_checksum, lib) ==
  LET payload == read_payload(files.archive)
      metadata == read_metadata(files.metadata)
  IN IF payload.err # "" THEN [err |-> payload.err, output |-> files.output]
     ELSE IF metadata.err # "" THEN [err |-> metadata.err, output |-> files.output]
     ELSE ValidateAndWrite(decompress_alignment(payload.payload, metadata.data, lib),
                           metadata.data, files, validate_checksum)

(***************************************************************************)
(* Inputs: frames, tree hints, override values                             *)
(***************************************************************************)
InputIds(n) == [k \in 1..n |-> IdPool[k]]

InputFrames ==
  {alignment_from_sequences(InputIds(Len(seqs)), seqs, NULL,
                            [source_format |-> "fasta", tree_newick |-> NULL]) :
     seqs \in UNION {UNION {[1..n -> [1..len -> Symbols]] :
                                len \in {c \in 0..MaxCols : n * c <= MaxCells}} :
                       n \in 1..MaxRows}}

RECURSIVE JoinLabels(_, _)
JoinLabels(labels, suffix) ==
  IF Len(labels) = 0 THEN <<>>
  ELSE IF Len(labels) = 1 THEN labels[1] \o suffix
  ELSE labels[1] \o suffix \o <<",">> \o JoinLabels(Tail(labels), suffix)

Reverse(s) == [k \in 1..Len(s) |-> s[Len(s) + 1 - k]]

FlatTree(labels, suffix) == <<"(">> \o JoinLabels(labels, suffix) \o <<")", ";">>

\* ((first,second),rest...); : a nested tree over the same leaves
NestedTree(labels) ==
  IF Len(labels) < 3 THEN FlatTree(labels, <<>>)
  ELSE <<"(", "(">> \o labels[1] \o <<",">> \o labels[2] \o <<")", ",">>
       \o JoinLabels(SubSeq(labels, 3, Len(labels)), <<>>) \o <<")", ";">>

\* Newick strings offered as tree hint for a frame with these identifiers
TreeHints(ids) ==
  {NULL,
   NestedTree(ids),                                        \* leaf order = row order
   <<" ">> \o FlatTree(Reverse(ids), <<>>) \o <<"\n">>,    \* reversed rows
   FlatTree(Tail(ids) \o <<ids[1]>>, <<":", "1">>),        \* rotated, branch lengths
   FlatTree(Tail(ids), <<>>),                              \* a leaf is missing
   FlatTree(Tail(ids) \o <<ids[Len(ids)]>>, <<>>),         \* a leaf twice, one missing
   FlatTree(ids \o <<ids[1]>>, <<>>),                      \* every leaf, one twice
   FlatTree(Tail(ids) \o << <<"x">> >>, <<>>),             \* unknown label
   SubSeq(FlatTree(ids, <<>>), 1, Len(FlatTree(ids, <<>>)) - 1),  \* no final ';'
   <<"(">> \o FlatTree(ids, <<>>)}                         \* unbalanced

OrderOverrides == {"auto", "baseline", "mst", "greedy", "MST", "bogus"}

\* what the caller sets up before compress_alignment: the tree hint and the
\* source format in the frame's metadata, and ECOMP_SEQUENCE_ORDER
CallerSetups(ids) ==
  {[hint |-> NULL, order |-> "auto", source_format |-> "fasta"],
   [hint |-> FlatTree(Tail(ids) \o <<ids[1]>>, <<":", "1">>), order |-> "auto",
    source_format |-> "phylip"],
   [hint |-> FlatTree(Tail(ids), <<>>), order |-> "greedy", source_format |-> "fasta"]}

\* length of gzip(FASTA) relative to the structured payload or to the FASTA text
GzipBelowPayload(delta) == [base |-> "payload", delta |-> delta]

GzipBelowFasta(delta) == [base |-> "fasta", delta |-> delta]

\* behaviours of the codec libraries: output length minus input length for the
\* sequence-ID block, the payload and the metadata JSON, the times measured
\* around the payload compressors, and the gzip lengths tried with them
CodecOutcomes ==
  {\* nothing shrinks, zstandard not installed
   [zstd_available |-> FALSE, ids_zstd |-> 9, ids_zlib |-> 8, zstd |-> 9, zlib |-> 8,
    xz |-> 32, metadata_zlib |-> 8,
    seconds |-> [zstd |-> 3, zlib |-> 2, xz |-> 1],
    gzips |-> {GzipBelowFasta(0), GzipBelowFasta(-1)}],
   \* zstandard wins the ID block and the payload by the smallest margins
   [zstd_available |-> TRUE, ids_zstd |-> -2, ids_zlib |-> -3, zstd |-> -1, zlib |-> 0,
    xz |-> 0, metadata_zlib |-> -6,
    seconds |-> [zstd |-> 1, zlib |-> 2, xz |-> 3],
    gzips |-> {GzipBelowPayload(-2), GzipBelowPayload(-1)}],
   \* no zstandard; zlib wins the ID block; zlib and xz tie on the payload
   [zstd_available |-> FALSE, ids_zstd |-> -2, ids_zlib |-> -2, zstd |-> -2, zlib |-> -1,
    xz |-> -1, metadata_zlib |-> -5,
    seconds |-> [zstd |-> 1, zlib |-> 2, xz |-> 1],
    gzips |-> {GzipBelowFasta(-1), GzipBelowPayload(-2)}],
   \* zstandard one byte short on the ID block, zlib takes it; xz wins the payload
   [zstd_available |-> TRUE, ids_zstd |-> -1, ids_zlib |-> -2, zstd |-> 0, zlib |-> 0,
    xz |-> -1, metadata_zlib |-> -6,
    seconds |-> [zstd |-> 2, zlib |-> 2, xz |-> 2],
    gzips |-> {GzipBelowFasta(0), GzipBelowPayload(-1)}],
   \* one byte short everywhere on the ID block; the payload candidates tie with raw
   [zstd_available |-> TRUE, ids_zstd |-> -1, ids_zlib |-> -1, zstd |-> 0, zlib |-> 0,
    xz |-> 0, metadata_zlib |-> 0,
    seconds |-> [zstd |-> 3, zlib |-> 1, xz |-> 2],
    gzips |-> {GzipBelowFasta(-1), GzipBelowPayload(-2)}],
   \* xz shrinks the payload below the FASTA text
   [zstd_available |-> TRUE, ids_zstd |-> 0, ids_zlib |-> 0, zstd |-> -8, zlib |-> -8,
    xz |-> -16, metadata_zlib |-> -6,
    seconds |-> [zstd |-> 2, zlib |-> 1, xz |-> 3],
    gzips |-> {GzipBelowPayload(-2), GzipBelowPayload(-1)}]}

LibraryOf(c, g) ==
  [zstd_available |-> c.zstd_available, ids_zstd |-> c.ids_zstd, ids_zlib |-> c.ids_zlib,
   zstd |-> c.zstd, zlib |-> c.zlib, xz |-> c.xz, metadata_zlib |-> c.metadata_zlib,
   seconds |-> c.seconds, gzip |-> g]

Libraries == UNION {{LibraryOf(c, g) : g \in c.gzips} : c \in CodecOutcomes}

NoOracle == [zstd_available |-> FALSE]
NoOrdering == [frame |-> [ids |-> <<>>], order |-> <<>>, label |-> ""]
NoCompressed == [payload |-> <<>>, metadata |-> [codec |-> ""]]
NoFrame == [ids |-> <<>>]
\* a codec function called on its own: no argument and no result yet
NoCall == [kind |-> "none"]
NoReturn == [err |-> ""]
NoDisk == [archive |-> <<>>, metadata |-> <<>>, output |-> <<>>]

(***************************************************************************)
(* The order optimizer on its own                                          *)
(***************************************************************************)
InitOrder ==
  /\ frame \in InputFrames
  /\ env = "auto"
  /\ oracle = NoOracle
  /\ pc = "input"
  /\ ordering = NoOrdering
  /\ compressed = NoCompressed
  /\ restored = NoFrame
  /\ disk = NoDisk
  /\ outcome = "none"
  /\ call = NoCall
  /\ written = <<>>
  /\ returned = NoReturn

\* the caller attaches a tree hint, sets ECOMP_SEQUENCE_ORDER and calls
\* _compute_similarity_order
ComputeSimilarityOrder ==
  /\ pc = "input"
  /\ \E hint \in TreeHints(frame.ids), e \in OrderOverrides :
       LET f == [frame EXCEPT !.metadata.tree_newick = hint] IN
       /\ frame' = f
       /\ env' = e
       /\ ordering' = _compute_similarity_order(f, e)
  /\ pc' = "ordered"
  /\ UNCHANGED <<oracle, compressed, restored, disk, outcome, call, written, returned>>

NextOrder == ComputeSimilarityOrder

SpecOrder == InitOrder /\ [][NextOrder]_vars

(***************************************************************************)
(* compress_alignment followed by decompress_alignment                     *)
(***************************************************************************)
Init == InitOrder

CompressAlignment ==
  /\ pc = "input"
  /\ \E setup \in CallerSetups(frame.ids), lib \in Libraries :
       \E f \in {[frame EXCEPT !.metadata = [source_format |-> setup.source_format,
                                             tree_newick |-> setup.hint]]} :
       \E result \in {compress_alignment(f, setup.order, lib)} :
          /\ frame' = f
          /\ env' = setup.order
          /\ oracle' = lib
          /\ compressed' = [payload |-> result.payload, metadata |-> result.metadata]
          /\ outcome' = IF result.err = "" THEN "ok" ELSE result.err
  /\ pc' = "compressed"
  /\ UNCHANGED <<ordering, restored, disk, call, written, returned>>

DecompressAlignment ==
  /\ pc = "compressed"
  /\ outcome = "ok"
  /\ \E result \in {decompress_alignment(compressed.payload, compressed.metadata, oracle)} :
        /\ restored' = result.frame
        /\ compressed' = [compressed EXCEPT !.metadata = result.metadata]
        /\ outcome' = IF result.err = "" THEN "ok" ELSE result.err
  /\ pc' = "restored"
  /\ UNCHANGED <<frame, env, oracle, ordering, disk, call, written, returned>>

Next == CompressAlignment \/ DecompressAlignment

Spec == Init /\ [][Next]_vars

(***************************************************************************)
(* compress_file, an edit of the metadata file, decompress_file            *)
(***************************************************************************)
FileSetups(ids) ==
  {[hint |-> NULL, order |-> "auto", source_format |-> "fasta"],
   [hint |-> FlatTree(Reverse(ids), <<>>), order |-> "auto", source_format |-> "fasta"]}

FileLibraries ==
  {lib \in Libraries : lib.gzip.base = "fasta"}

\* read_alignment, compress_alignment, write_payload, write_metadata
CompressFile ==
  /\ pc = "input"
  /\ \E setup \in FileSetups(frame.ids), lib \in FileLibraries :
       \E f \in {[frame EXCEPT !.metadata = [source_format |-> setup.source_format,
                                             tree_newick |-> setup.hint]]} :
       \E result \in {compress_alignment(f, setup.order, lib)} :
          /\ frame' = f
          /\ env' = setup.order
          /\ oracle' = lib
          /\ compressed' = [payload |-> result.payload, metadata |-> result.metadata]
          /\ disk' = [archive |-> write_payload(result.payload),
                      metadata |-> write_metadata(result.metadata, lib),
                      output |-> <<>>]
          /\ outcome' = IF result.err = "" THEN "ok" ELSE result.err
  /\ pc' = "archived"
  /\ UNCHANGED <<ordering, restored, call, written, returned>>

\* checksum_sha256 values someone may leave in the metadata file
EditedChecksums == {<<"deadbeef">>, <<>>}

\* the metadata file is rewritten with another checksum_sha256, or without one
EditMetadata ==
  /\ pc = "archived"
  /\ \E metadata \in {read_metadata(disk.metadata).data} :
     \E edited \in {DictSet(metadata, "checksum_sha256", c) : c \in EditedChecksums}
                     \cup {DictPop(metadata, "checksum_sha256")} :
       disk' = [disk EXCEPT !.metadata = write_metadata(edited, oracle)]
  /\ pc' = "edited"
  /\ UNCHANGED <<frame, env, oracle, ordering, compressed, restored, outcome, call, written, returned>>

DecompressFile ==
  /\ pc \in {"archived", "edited"}
  /\ \E validate_checksum \in BOOLEAN :
     \E result \in {decompress_file(disk, validate_checksum, oracle)} :
       /\ disk' = [disk EXCEPT !.output = result.output]
       /\ outcome' = IF result.err = "" THEN "written" ELSE result.err
       /\ pc' = IF validate_checksum THEN "validated" ELSE "unvalidated"
  /\ UNCHANGED <<frame, env, oracle, ordering, compressed, restored, call, written, returned>>

NextFile == CompressFile \/ EditMetadata \/ DecompressFile

SpecFile == Init /\ [][NextFile]_vars


(***************************************************************************)
(* The codec functions called on their own: encode_blocks / decode_blocks, *)
(* the sequence-ID block, the archive files, the run-length grouper        *)
(***************************************************************************)
\* run-length blocks of one bitmask width: both consensus characters, masks
\* that trim to nothing, to one byte and to the full width, residues or none,
\* a run that earns no dictionary entry and one that does
BlockPool(width) ==
  {[consensus |-> c, bitmask |-> m, residues |-> r, run_length |-> n] :
     c \in {"A", "C"},
     m \in {Zeros(width), <<1>> \o Zeros(width - 1), Zeros(width - 1) \o <<1>>},
     r \in {<<>>, <<128>>},
     n \in {1, 255}}

\* every list of at most MaxBlocks blocks of the pool
BlockLists(width) ==
  UNION {[1..n -> BlockPool(width)] : n \in 0..MaxBlocks}

\* one block whose bitmask of MAX_MASK_LENGTH + 1 bytes has last as its last byte
WideMaskBlock(last) ==
  [consensus |-> "A", bitmask |-> Zeros(MAX_MASK_LENGTH) \o <<last>>,
   residues |-> <<128>>, run_length |-> 1]

\* the arguments of a call of encode_blocks
BlockCalls ==
  UNION {{[kind |-> "blocks", blocks |-> blocks, bitmask_bytes |-> width,
           bits_per_symbol |-> 1] : blocks \in BlockLists(width)} : width \in 1..MaxMaskWidth}
    \cup {[kind |-> "blocks", blocks |-> <<WideMaskBlock(last)>>,
            bitmask_bytes |-> MAX_MASK_LENGTH + 1, bits_per_symbol |-> 1] : last \in {0, 1}}

\* an identifier as long as the model allows: its length needs a two-byte varint
LongId == [k \in 1..MaxIdLength |-> "a"]

\* identifier lists: up to MaxIds short identifiers, and the long one
IdLists ==
  UNION {[1..n -> {IdPool[1], IdPool[2], IdPool[3]}] : n \in 0..MaxIds}
    \cup {<<LongId>>, <<IdPool[1], LongId>>}

\* what may follow the identifier block in a payload: nothing, the head of a
\* block stream, bytes that look like another identifier block
TrailingBytes ==
  {<<>>, <<0, 0, 0, 0, 0>>, SEQ_ID_MAGIC \o <<SEQ_ID_VERSION, 1, 0>>, <<255, 1>>}

\* the arguments of a call of _encode_sequence_ids, and the bytes the caller
\* appends to its result
IdCalls == {[kind |-> "ids", ids |-> ids, rest |-> rest] : ids \in IdLists, rest \in TrailingBytes}

\* byte strings handed to write_payload
ArchivePayloads ==
  {<<>>, <<0>>, HEADER_MAGIC, <<104, 101, 108, 108, 111>>, Zeros(MaxPayloadLength)}

\* metadata dictionaries handed to write_metadata: the keys of the codec, keys
\* it does not know, nested values, no key at all
ArchiveMetadata ==
  {[codec |-> "ecomp", alignment_length |-> 123],
   [foo |-> "bar"],
   [codec |-> "ecomp", alignment_length |-> 2, num_sequences |-> 3,
    alphabet |-> <<"-", "A">>, x_custom |-> [note |-> "kept", values |-> <<1, 2>>],
    sequence_permutation |-> <<1, 0, 2>>, checksum_sha256 |-> "ab"],
   <<>>}

\* a frame of the given rows
FrameOf(seqs) ==
  alignment_from_sequences(InputIds(Len(seqs)), seqs, NULL, [source_format |-> "fasta"])

\* frames with runs of equal columns as long as and longer than MAX_RUN_LENGTH:
\* one row of equal columns, and two rows whose run deviates in the second
\* row and is followed by a column without deviation
LongRunFrames ==
  {FrameOf(<<[c \in 1..len |-> "A"]>>) :
     len \in {MAX_RUN_LENGTH, MAX_RUN_LENGTH + 1, 2 * MAX_RUN_LENGTH + 1}}
    \cup {FrameOf(<<[c \in 1..(MAX_RUN_LENGTH + 2) |-> "A"],
                    [c \in 1..(MAX_RUN_LENGTH + 2) |->
                       IF c <= MAX_RUN_LENGTH + 1 THEN "T" ELSE "A"]>>)}

\* the arguments of a call of collect_run_length_blocks: the column profiles
\* of a frame, its row count and its alphabet
ColumnCalls ==
  {[kind |-> "columns", frame |-> f, profiles |-> collect_column_profiles(f)] :
     f \in InputFrames \cup LongRunFrames}

\* frames handed to compress_alignment before its result is edited: one row,
\* two rows with a deviation in the last column, three rows the optimizer
\* reorders
DecodeFrames ==
  {alignment_from_sequences(InputIds(Len(seqs)), seqs, NULL,
                            [source_format |-> "fasta", tree_newick |-> NULL]) :
     seqs \in {<< <<"A", "A", "A", "A">> >>,
               << <<"A", "A", "A", "A">>, <<"A", "A", "A", "T">> >>,
               << <<"A", "T">>, <<"T", "A">>, <<"A", "T">> >>}}

\* what a caller does to the metadata between compress_alignment and
\* decompress_alignment: nothing, another payload_encoding, an
\* alignment_length one more or one less than the frame's
EditedMetadata(metadata) ==
  {metadata,
   DictSet(metadata, "payload_encoding", "bogus"),
   DictSet(metadata, "payload_encoding", "zstd"),
   DictSet(metadata, "alignment_length", metadata["alignment_length"] + 1),
   DictSet(metadata, "alignment_length", metadata["alignment_length"] - 1)}

\* the arguments of a call of decompress_alignment: the payload of
\* compress_alignment and its metadata, edited; lib is the libraries at
\* decompression, with or without the zstandard module.  A payload tagged
\* zstd that is no zstd stream is decoded only where the module is missing:
\* what zstandard makes of foreign bytes is not part of the model.
DecodeCallsOf(result, lib) ==
  {c \in {[kind |-> "decode", payload |-> result.payload, metadata |-> metadata,
            given |-> result.metadata, lib |-> decoder] :
             metadata \in EditedMetadata(result.metadata),
             decoder \in {lib, [lib EXCEPT !.zstd_available = FALSE]}} :
     (c.metadata["payload_encoding"] = "zstd" /\ c.given["payload_encoding"] # "zstd")
       => ~c.lib.zstd_available}

DecodeCalls ==
  UNION {DecodeCallsOf(compress_alignment(f, "auto", lib), lib) :
           f \in DecodeFrames, lib \in Libraries}

\* block streams as a writer other than encode_blocks may leave them: a
\* literal block; a dictionary entry, a reference to it and a literal; a
\* reference to an entry the dictionary does not have; an unknown marker; a
\* literal and a dictionary entry whose mask length exceeds a width of one
\* byte; a literal and a dictionary entry whose consensus byte is not ASCII
ForeignStreams ==
  {<<0>> \o PackU32(1) \o <<0, 1, Ord("A"), 1, 1>> \o PackU16(1) \o <<128>>,
   <<1, Ord("A"), 1, 1>> \o PackU16(1) \o <<128>> \o PackU32(2) \o <<1, 0, 255>>
     \o <<0, 3, Ord("C"), 0>> \o PackU16(0),
   <<1, Ord("A"), 1, 1>> \o PackU16(1) \o <<128>> \o PackU32(1) \o <<1, 1, 255>>,
   <<0>> \o PackU32(1) \o <<99>>,
   <<0>> \o PackU32(1) \o <<0, 1, Ord("A"), 2, 1, 1>> \o PackU16(0),
   <<1, Ord("A"), 2, 1, 1>> \o PackU16(0) \o PackU32(0),
   <<0>> \o PackU32(1) \o <<0, 1, 200, 0>> \o PackU16(0),
   <<1, 200, 0>> \o PackU16(0) \o PackU32(0)}

\* the arguments of a call of decode_blocks on bytes of any origin: every
\* stream above cut after each of its bytes, for bitmask widths of 1 and 2
ByteCalls ==
  UNION {{[kind |-> "bytes", payload |-> SubSeq(stream, 1, n), bitmask_bytes |-> width,
           bits_per_symbol |-> 1] : n \in 0..Len(stream), width \in {1, 2}} :
           stream \in ForeignStreams}

\* the arguments of a call of _select_sample_indices: every alignment length
\* up to MaxSampleLength, with the default cap
SampleCalls ==
  {[kind |-> "sample", length |-> length, cap |-> SAMPLE_CAP] : length \in 1..MaxSampleLength}

ArchiveCalls ==
  {[kind |-> "archive", payload |-> payload, metadata |-> metadata] :
     payload \in ArchivePayloads, metadata \in ArchiveMetadata}

\* one behaviour of the libraries per codec outcome
CodecLibraries == {LibraryOf(c, GzipBelowFasta(0)) : c \in CodecOutcomes}

InitCodec ==
  /\ frame = NoFrame
  /\ env = "auto"
  /\ pc = "call"
  /\ ordering = NoOrdering
  /\ compressed = NoCompressed
  /\ restored = NoFrame
  /\ disk = NoDisk
  /\ outcome = "none"
  /\ \/ call \in BlockCalls /\ oracle = NoOracle
     \/ call \in IdCalls /\ oracle \in CodecLibraries
     \/ call \in ArchiveCalls /\ oracle \in CodecLibraries
     \/ call \in ColumnCalls /\ oracle = NoOracle
     \/ call \in DecodeCalls /\ oracle = call.lib
     \/ call \in SampleCalls /\ oracle = NoOracle
     \/ call \in ByteCalls /\ oracle = NoOracle
  /\ written = <<>>
  /\ returned = NoReturn

EncodeBlocks ==
  /\ pc = "call"
  /\ call.kind = "blocks"
  /\ \E result \in {encode_blocks(call.blocks, call.bitmask_bytes, call.bits_per_symbol)} :
       /\ written' = result.bytes
       /\ outcome' = IF result.err = "" THEN "ok" ELSE result.err
  /\ pc' = "encoded"
  /\ UNCHANGED <<frame, env, oracle, ordering, compressed, restored, disk, call, returned>>

DecodeBlocks ==
  /\ pc = "encoded"
  /\ call.kind = "blocks"
  /\ outcome = "ok"
  /\ \E result \in {decode_blocks(written, call.bitmask_bytes, call.bits_per_symbol)} :
       /\ returned' = result
       /\ outcome' = IF result.err = "" THEN "ok" ELSE result.err
  /\ pc' = "decoded"
  /\ UNCHANGED <<frame, env, oracle, ordering, compressed, restored, disk, call, written>>

EncodeSequenceIds ==
  /\ pc = "call"
  /\ call.kind = "ids"
  /\ written' = _encode_sequence_ids(call.ids, oracle)
  /\ outcome' = "ok"
  /\ pc' = "encoded"
  /\ UNCHANGED <<frame, env, oracle, ordering, compressed, restored, disk, call, returned>>

\* the caller decodes the identifier block followed by the rest of the payload
DecodeSequenceIds ==
  /\ pc = "encoded"
  /\ call.kind = "ids"
  /\ \E result \in {_decode_sequence_ids(written \o call.rest, oracle)} :
       /\ returned' = result
       /\ outcome' = IF result.err = "" THEN "ok" ELSE result.err
  /\ pc' = "decoded"
  /\ UNCHANGED <<frame, env, oracle, ordering, compressed, restored, disk, call, written>>

\* write_payload to the archive file and write_metadata to its sibling
WriteArchive ==
  /\ pc = "call"
  /\ call.kind = "archive"
  /\ disk' = [archive |-> write_payload(call.payload),
              metadata |-> write_metadata(call.metadata, oracle),
              output |-> <<>>]
  /\ outcome' = "ok"
  /\ pc' = "written"
  /\ UNCHANGED <<frame, env, oracle, ordering, compressed, restored, call, written, returned>>

\* what may become of an archive file before it is read: cut short, cut to
\* its header, a byte lost or gained, another magic, another declared length
DamagedArchives(data) ==
  {SubSeq(data, 1, k) : k \in {0, Len(HEADER_MAGIC) + 1, HEADER_SIZE - 1, HEADER_SIZE,
                                Len(data) - 1}}
    \cup {data \o <<0>>,
          [data EXCEPT ![Len(HEADER_MAGIC)] = Ord("Z")],
          [data EXCEPT ![HEADER_SIZE] = (@ + 1) % 256]}

DamageArchive ==
  /\ pc = "written"
  /\ \E data \in DamagedArchives(disk.archive) \ {disk.archive} :
       disk' = [disk EXCEPT !.archive = data]
  /\ pc' = "damaged"
  /\ UNCHANGED <<frame, env, oracle, ordering, compressed, restored, outcome, call, written,
                 returned>>

\* read_payload, then read_metadata, as decompress_file calls them
read_archive(files) ==
  LET payload == read_payload(files.archive)
      metadata == read_metadata(files.metadata)
  IN IF payload.err # "" THEN [err |-> payload.err, payload |-> <<>>, metadata |-> <<>>]
     ELSE IF metadata.err # ""
     THEN [err |-> metadata.err, payload |-> <<>>, metadata |-> <<>>]
     ELSE [err |-> "", payload |-> payload.payload, metadata |-> metadata.data]

ReadArchive ==
  /\ pc \in {"written", "damaged"}
  /\ \E result \in {read_archive(disk)} :
       /\ returned' = result
       /\ outcome' = IF result.err = "" THEN "ok" ELSE result.err
  /\ pc' = IF pc = "written" THEN "read" ELSE "read-damaged"
  /\ UNCHANGED <<frame, env, oracle, ordering, compressed, restored, disk, call, written>>

\* collect_run_length_blocks, one pass of its loop at a time; the pass after
\* the last column returns the blocks
GroupColumn ==
  /\ pc \in {"call", "grouping"}
  /\ call.kind = "columns"
  /\ \E i \in {IF pc = "call" THEN 1 ELSE returned.next},
        blocks \in {IF pc = "call" THEN <<>> ELSE returned.blocks} :
       IF i > Len(call.profiles)
       THEN /\ returned' = [err |-> "", blocks |-> blocks, next |-> i]
            /\ pc' = "grouped"
       ELSE /\ returned' =
                 [err |-> "",
                  blocks |-> GroupStep(call.profiles, i, num_sequences(call.frame),
                                       call.frame.alphabet,
                                       BitsPerSymbol(call.frame.alphabet), blocks),
                  next |-> i + 1]
            /\ pc' = "grouping"
  /\ outcome' = "ok"
  /\ UNCHANGED <<frame, env, oracle, ordering, compressed, restored, disk, call, written>>

\* decompress_alignment on a payload and the metadata a caller hands in
DecompressEdited ==
  /\ pc = "call"
  /\ call.kind = "decode"
  /\ \E result \in {decompress_alignment(call.payload, call.metadata, call.lib)} :
       /\ returned' = result
       /\ outcome' = IF result.err = "" THEN "ok" ELSE result.err
  /\ pc' = "decompressed"
  /\ UNCHANGED <<frame, env, oracle, ordering, compressed, restored, disk, call, written>>

\* decode_blocks on bytes of any origin
DecodeBytes ==
  /\ pc = "call"
  /\ call.kind = "bytes"
  /\ \E result \in {decode_blocks(call.payload, call.bitmask_bytes, call.bits_per_symbol)} :
       /\ returned' = result
       /\ outcome' = IF result.err = "" THEN "ok" ELSE result.err
  /\ pc' = "parsed"
  /\ UNCHANGED <<frame, env, oracle, ordering, compressed, restored, disk, call, written>>

SelectSampleIndices ==
  /\ pc = "call"
  /\ call.kind = "sample"
  /\ returned' = [err |-> "", indices |-> _select_sample_indices(call.length, call.cap)]
  /\ outcome' = "ok"
  /\ pc' = "sampled"
  /\ UNCHANGED <<frame, env, oracle, ordering, compressed, restored, disk, call, written>>

NextCodec ==
  \/ EncodeBlocks \/ DecodeBlocks
  \/ EncodeSequenceIds \/ DecodeSequenceIds
  \/ WriteArchive \/ DamageArchive \/ ReadArchive
  \/ GroupColumn
  \/ DecompressEdited
  \/ SelectSampleIndices
  \/ DecodeBytes

SpecCodec == InitCodec /\ [][NextCodec]_vars

(***************************************************************************)
(* _mst_sequence_order and _greedy_sequence_order on distance matrices     *)
(***************************************************************************)
\* the symmetric matrix over n rows with zero diagonal whose entry for the
\* rows i < j is upper[<<i, j>>]
SymmetricMatrix(n, upper) ==
  [i \in 0..(n - 1) |->
     [j \in 0..(n - 1) |->
        IF i = j THEN 0 ELSE IF i < j THEN upper[<<i, j>>] ELSE upper[<<j, i>>]]]

\* every symmetric matrix over n rows with distances up to MaxDistance
SymmetricMatrices(n) ==
  {SymmetricMatrix(n, upper) :
     upper \in [{<<i, j>> \in (0..(n - 1)) \X (0..(n - 1)) : i < j} -> 0..MaxDistance]}

InitMatrix ==
  /\ frame = NoFrame
  /\ env = "auto"
  /\ oracle = NoOracle
  /\ pc = "call"
  /\ ordering = NoOrdering
  /\ compressed = NoCompressed
  /\ restored = NoFrame
  /\ disk = NoDisk
  /\ outcome = "none"
  /\ \E n \in 1..MaxMatrixRows :
       \E dm \in SymmetricMatrices(n) : call = [kind |-> "matrix", dm |-> dm]
  /\ written = <<>>
  /\ returned = NoReturn

MstSequenceOrder ==
  /\ pc = "call"
  /\ returned' = [err |-> "", order |-> _mst_sequence_order(call.dm)]
  /\ outcome' = "ok"
  /\ pc' = "mst"
  /\ UNCHANGED <<frame, env, oracle, ordering, compressed, restored, disk, call, written>>

GreedySequenceOrder ==
  /\ pc = "call"
  /\ returned' = [err |-> "", order |-> _greedy_sequence_order(call.dm)]
  /\ outcome' = "ok"
  /\ pc' = "greedy"
  /\ UNCHANGED <<frame, env, oracle, ordering, compressed, restored, disk, call, written>>

NextMatrix == MstSequenceOrder \/ GreedySequenceOrder

SpecMatrix == InitMatrix /\ [][NextMatrix]_vars

(***************************************************************************)
(* Phylo bundle (phylo_bundle.py): Newick parsing and tree structure       *)
(***************************************************************************)
BRANCH_SCALE == 10000

\* the character U+00E9, the one character of the model outside ASCII
EAcute == "U+00E9"

\* Optional[int] None of _TreeNode.parent and of the decoder's parents list
NoParent == -1

\* the number written in decimal with n digits "1"
RECURSIVE Ones(_)
Ones(n) == IF n = 0 THEN 0 ELSE 10 * Ones(n - 1) + 1

\* float() over the branch-length texts in use: an optional "-" and digits "1"
ParseFloat(chars) ==
  LET t == Strip(chars)
      negative == Len(t) > 0 /\ t[1] = "-"
      digits == IF negative THEN Tail(t) ELSE t
  IN IF Len(digits) = 0 \/ \E k \in DOMAIN digits : digits[k] # "1"
     THEN [err |-> "ValueError: Invalid branch length in Newick", value |-> 0]
     ELSE [err |-> "", value |-> IF negative THEN 0 - Ones(Len(digits)) ELSE Ones(Len(digits))]

\* parse_label_length of phylo_bundle: label (NULL when empty), branch length
\* and the next position
phylo_parse_label_length(text, p) ==
  LET q == ScanUntil(text, p, {":", ",", ")", ";"})
      label == IF q = p THEN NULL ELSE SubSeq(text, p, q - 1)
  IN IF q <= Len(text) /\ text[q] = ":"
     THEN LET r == ScanUntil(text, q + 1, {",", ")", ";"})
              length == ParseFloat(SubSeq(text, q + 1, r - 1))
          IN [err |-> length.err, label |-> label, length |-> length.value, idx |-> r]
     ELSE [err |-> "", label |-> label, length |-> 0, idx |-> q]

PhyloParseFail(message) ==
  [err |-> message, idx |-> 0, node |-> [label |-> NULL, length |-> 0, children |-> <<>>]]

RECURSIVE phylo_parse_subtree(_, _)
RECURSIVE PhyloParseChildren(_, _, _)

\* the while-loop of parse_subtree collecting the children of one "("
PhyloParseChildren(text, p, children) ==
  LET child == phylo_parse_subtree(text, p) IN
  IF child.err # "" THEN child
  ELSE LET q == child.idx
           sofar == Append(children, child.node)
       IN IF q > Len(text) THEN PhyloParseFail("IndexError: string index out of range")
          ELSE IF text[q] = "," THEN PhyloParseChildren(text, q + 1, sofar)
          ELSE IF text[q] = ")"
               THEN LET lab == phylo_parse_label_length(text, q + 1)
                    IN IF lab.err # "" THEN PhyloParseFail(lab.err)
                       ELSE [err |-> "", idx |-> lab.idx,
                             node |-> [label |-> lab.label, length |-> lab.length,
                                       children |-> sofar]]
          ELSE PhyloParseFail("ValueError: Malformed Newick: expected ',' or ')' ")

phylo_parse_subtree(text, p) ==
  IF p > Len(text) THEN PhyloParseFail("IndexError: string index out of range")
  ELSE IF text[p] = "(" THEN PhyloParseChildren(text, p + 1, <<>>)
  ELSE LET lab == phylo_parse_label_length(text, p)
       IN IF lab.err # "" THEN PhyloParseFail(lab.err)
          ELSE [err |-> "", idx |-> lab.idx,
                node |-> [label |-> lab.label, length |-> lab.length, children |-> <<>>]]

\* _parse_newick of phylo_bundle: the root node, or the exception raised
phylo_parse_newick(newick) ==
  LET text == Strip(newick) IN
  IF Len(text) = 0 \/ text[Len(text)] # ";"
  THEN PhyloParseFail("ValueError: Newick string must end with ';'")
  ELSE LET root == phylo_parse_subtree(text, 1)
       IN IF root.err # "" THEN root
          ELSE IF text[root.idx] # ";"
          THEN PhyloParseFail("ValueError: Unexpected content after Newick tree")
          ELSE root

RECURSIVE visit(_, _, _)
RECURSIVE VisitChildren(_, _, _, _)

\* the loop of visit over parser_node.children: each child is visited and its
\* index appended to the children of the node at index
VisitChildren(children, i, index, st) ==
  IF i > Len(children) THEN st
  ELSE LET child_index == Len(st.nodes)
           visited == visit(children[i], index, st)
           linked == [visited EXCEPT !.nodes[index + 1].children = Append(@, child_index)]
       IN VisitChildren(children, i + 1, index, linked)

visit(parser_node, parent, st) ==
  LET index == Len(st.nodes)
      node == [index |-> index, label |-> parser_node.label, parent |-> parent,
               children |-> <<>>, length |-> parser_node.length]
      after == VisitChildren(parser_node.children, 1, index,
                             [nodes |-> Append(st.nodes, node),
                              leaf_indices |-> st.leaf_indices])
  IN IF Len(parser_node.children) = 0
     THEN [nodes |-> after.nodes, leaf_indices |-> Append(after.leaf_indices, index)]
     ELSE after

\* nodes in preorder (nodes[k + 1] has index k) and the indices of the leaves
_collect_nodes(root) == visit(root, NoParent, [nodes |-> <<>>, leaf_indices |-> <<>>])

(***************************************************************************)
(* Phylo bundle: Fitch parsimony                                           *)
(***************************************************************************)
\* next(iter(s)) on a set of characters: the iteration order of a Python set
\* of str is not fixed by the program, pick names the element that comes first
NextIter(S, pick) ==
  IF pick = "low" THEN CHOOSE c \in S : \A d \in S : Ord(c) <= Ord(d)
  ELSE CHOOSE c \in S : \A d \in S : Ord(c) >= Ord(d)

\* sets[idx] after postorder(0) at the 1-based position pos
RECURSIVE postorder(_, _, _, _)
postorder(nodes, idx, leaf_sequences, pos) ==
  IF Len(nodes[idx + 1].children) = 0 THEN {leaf_sequences[idx][pos]}
  ELSE LET child_sets == {postorder(nodes, nodes[idx + 1].children[k], leaf_sequences, pos) :
                            k \in DOMAIN nodes[idx + 1].children}
           intersect == {c \in UNION child_sets : \A S \in child_sets : c \in S}
       IN IF intersect # {} THEN intersect ELSE UNION child_sets

\* seq_buffers[idx][pos] after preorder(0, next(iter(sets[0])))
RECURSIVE preorder(_, _, _, _, _)
preorder(nodes, idx, leaf_sequences, pos, pick) ==
  LET node_set == postorder(nodes, idx, leaf_sequences, pos) IN
  IF nodes[idx + 1].parent = NoParent THEN NextIter(node_set, pick)
  ELSE LET parent_char == preorder(nodes, nodes[idx + 1].parent, leaf_sequences, pos, pick)
       IN IF parent_char \in node_set THEN parent_char ELSE NextIter(node_set, pick)

\* leaf_sequences maps node index to row; first is the first value inserted.
\* A leaf without a row raises KeyError at the first position.
_assign_sequences(nodes, leaf_indices, leaf_sequences, first, pick) ==
  LET length == Len(first) IN
  IF length > 0 /\ \E k \in DOMAIN leaf_indices : leaf_indices[k] \notin DOMAIN leaf_sequences
  THEN [err |-> "KeyError", sequences |-> <<>>]
  ELSE [err |-> "",
        sequences |-> [k \in 1..Len(nodes) |->
                         [pos \in 1..length |->
                            preorder(nodes, k - 1, leaf_sequences, pos, pick)]]]

(***************************************************************************)
(* Phylo bundle: compress_alignment_with_tree                              *)
(***************************************************************************)
\* the bytes of the loop of _encode_varint for a value >= 0
RECURSIVE PhyloVarintBytes(_)
PhyloVarintBytes(value) ==
  IF value \div 128 # 0
  THEN <<(value % 128) + 128>> \o PhyloVarintBytes(value \div 128)
  ELSE <<value % 128>>

\* _encode_varint of phylo_bundle
phylo_encode_varint(value) ==
  IF value < 0
  THEN [err |-> "ValueError: varint cannot encode negative values", bytes |-> <<>>]
  ELSE [err |-> "", bytes |-> PhyloVarintBytes(value)]

\* str.encode("utf-8") of one character and of a text
Utf8Char(c) == IF c = EAcute THEN <<195, 169>> ELSE <<Ord(c)>>

RECURSIVE Utf8Encode(_)
Utf8Encode(text) ==
  IF Len(text) = 0 THEN <<>> ELSE Utf8Char(text[1]) \o Utf8Encode(Tail(text))

\* {nodes[idx].label: idx for idx in leaf_indices}: the last leaf wins
LeafLabelToIndex(nodes, leaf_indices) ==
  [label \in {nodes[leaf_indices[k] + 1].label : k \in DOMAIN leaf_indices} |->
     leaf_indices[MaxOf({k \in DOMAIN leaf_indices : nodes[leaf_indices[k] + 1].label = label})]]

\* {leaf_label_to_index[id_]: seq for id_, seq in zip(frame.ids, frame.sequences)}
LeafSequences(f, leaf_label_to_index) ==
  [idx \in {leaf_label_to_index[f.ids[k]] : k \in DOMAIN f.ids} |->
     f.sequences[MaxOf({k \in DOMAIN f.ids : leaf_label_to_index[f.ids[k]] = idx})]]

\* parent and quantized branch length of the nodes from the i-th on
RECURSIVE EncodeNodeTable(_, _)
EncodeNodeTable(nodes, i) ==
  IF i > Len(nodes) THEN [err |-> "", bytes |-> <<>>]
  ELSE LET parent_encoded == IF nodes[i].parent = NoParent THEN 0 ELSE nodes[i].parent + 1
           length_q == nodes[i].length * BRANCH_SCALE
           encoded == phylo_encode_varint(length_q)
       IN IF encoded.err # "" THEN encoded
          ELSE LET rest == EncodeNodeTable(nodes, i + 1)
               IN IF rest.err # "" THEN rest
                  ELSE [err |-> "",
                        bytes |-> phylo_encode_varint(parent_encoded).bytes
                                  \o encoded.bytes \o rest.bytes]

\* index, len(label) and the UTF-8 bytes of the label of the leaves from the k-th on
RECURSIVE EncodeLeafTable(_, _, _)
EncodeLeafTable(nodes, leaf_indices, k) ==
  IF k > Len(leaf_indices) THEN <<>>
  ELSE LET label == nodes[leaf_indices[k] + 1].label
       IN phylo_encode_varint(leaf_indices[k]).bytes
          \o phylo_encode_varint(Len(label)).bytes
          \o Utf8Encode(label)
          \o EncodeLeafTable(nodes, leaf_indices, k + 1)

\* the 0-based positions at which the node differs from its parent, ascending
DiffPositions(parent_seq, node_seq) ==
  AscendingList({pos \in 0..(Len(node_seq) - 1) : parent_seq[pos + 1] # node_seq[pos + 1]})

\* delta and residue of the differences from the i-th on
RECURSIVE EncodeDiffs(_, _, _, _)
EncodeDiffs(positions, i, prev, node_seq) ==
  IF i > Len(positions) THEN <<>>
  ELSE phylo_encode_varint(positions[i] - prev).bytes
       \o <<Ord(node_seq[positions[i] + 1])>>
       \o EncodeDiffs(positions, i + 1, positions[i], node_seq)

\* the difference lists of the nodes from node_index on against their parents
RECURSIVE EncodeNodeDiffs(_, _, _)
EncodeNodeDiffs(nodes, node_sequences, node_index) ==
  IF node_index >= Len(nodes) THEN <<>>
  ELSE LET node_seq == node_sequences[node_index + 1]
           positions == DiffPositions(node_sequences[nodes[node_index + 1].parent + 1], node_seq)
       IN phylo_encode_varint(Len(positions)).bytes
          \o EncodeDiffs(positions, 1, 0, node_seq)
          \o EncodeNodeDiffs(nodes, node_sequences, node_index + 1)

PhyloFail(message) == [err |-> message, payload |-> <<>>, metadata |-> [codec |-> ""]]

\* b"PB01"
PB_MAGIC == <<80, 66, 48, 49>>

\* the payload and metadata written once the node sequences are assigned
BundlePayload(f, nodes, leaf_indices, node_sequences) ==
  LET table == EncodeNodeTable(nodes, 1) IN
  IF table.err # "" THEN PhyloFail(table.err)
  ELSE [err |-> "",
        payload |-> PB_MAGIC
                    \o phylo_encode_varint(Len(nodes)).bytes
                    \o table.bytes
                    \o phylo_encode_varint(Len(leaf_indices)).bytes
                    \o EncodeLeafTable(nodes, leaf_indices, 1)
                    \o phylo_encode_varint(Len(node_sequences[1])).bytes
                    \o EncodeText(node_sequences[1])
                    \o EncodeNodeDiffs(nodes, node_sequences, 1),
        metadata |-> [codec |-> "phylo-bundle",
                      num_sequences |-> num_sequences(f),
                      alignment_length |-> alignment_length(f),
                      sequence_ids |-> f.ids,
                      alphabet |-> f.alphabet,
                      source_format |-> DictGet(f.metadata, "source_format", "unknown"),
                      checksum_sha256 |-> alignment_checksum(f.sequences),
                      branch_scale |-> BRANCH_SCALE]]

\* the checks on the leaves and the sequence assignment
BundleNodes(f, nodes, leaf_indices, pick) ==
  LET leaf_label_to_index == LeafLabelToIndex(nodes, leaf_indices) IN
  IF NULL \in DOMAIN leaf_label_to_index
  THEN PhyloFail("ValueError: All leaves must be labelled in the Newick tree")
  ELSE IF Range(f.ids) # DOMAIN leaf_label_to_index
  THEN PhyloFail("ValueError: Alignment sequence IDs must match Newick leaf labels")
  ELSE LET assigned == _assign_sequences(nodes, leaf_indices,
                                         LeafSequences(f, leaf_label_to_index),
                                         f.sequences[1], pick)
       IN IF assigned.err # "" THEN PhyloFail(assigned.err)
          ELSE BundlePayload(f, nodes, leaf_indices, assigned.sequences)

\* pick: the element a Python set of characters yields first
compress_alignment_with_tree(f, newick, pick) ==
  LET parser_root == phylo_parse_newick(newick) IN
  IF parser_root.err # "" THEN PhyloFail(parser_root.err)
  ELSE LET collected == _collect_nodes(parser_root.node)
       IN BundleNodes(f, collected.nodes, collected.leaf_indices, pick)

(***************************************************************************)
(* Phylo bundle: decompress_alignment_with_tree                            *)
(***************************************************************************)
\* _decode_varint of phylo_bundle at the 0-based cursor; data[cursor] past the
\* end of the memoryview raises IndexError
RECURSIVE PhyloVarintLoop(_, _, _, _)
PhyloVarintLoop(data, cursor, shift, result) ==
  IF cursor >= Len(data)
  THEN [err |-> "IndexError: index out of bounds on dimension 1", value |-> 0, cursor |-> cursor]
  ELSE LET byte == data[cursor + 1]
           r == result + (byte % 128) * Pow2(shift)
       IN IF byte < 128 THEN [err |-> "", value |-> r, cursor |-> cursor + 1]
          ELSE IF shift + 7 > 56
          THEN [err |-> "ValueError: Varint too long", value |-> 0, cursor |-> cursor + 1]
          ELSE PhyloVarintLoop(data, cursor + 1, shift + 7, r)

phylo_decode_varint(data, cursor) == PhyloVarintLoop(data, cursor, 0, 0)

\* data[a:b] of Python for 0 <= a, b: the slice is cut at the end of data
CutSlice(data, a, b) ==
  SubSeq(data, (IF a < Len(data) THEN a ELSE Len(data)) + 1, IF b < Len(data) THEN b ELSE Len(data))

\* bytes.decode("utf-8") over the characters in use
RECURSIVE Utf8Decode(_)
Utf8Decode(bytes) ==
  IF Len(bytes) = 0 THEN [err |-> "", text |-> <<>>]
  ELSE IF bytes[1] < 128
  THEN LET rest == Utf8Decode(Tail(bytes))
       IN [err |-> rest.err, text |-> <<Chr(bytes[1])>> \o rest.text]
  ELSE IF Len(bytes) >= 2 /\ bytes[1] = 195 /\ bytes[2] = 169
  THEN LET rest == Utf8Decode(SubSeq(bytes, 3, Len(bytes)))
       IN [err |-> rest.err, text |-> <<EAcute>> \o rest.text]
  ELSE [err |-> "UnicodeDecodeError: 'utf-8' codec can't decode byte", text |-> <<>>]

\* bytes.decode("ascii")
AsciiDecode(bytes) ==
  IF \E k \in DOMAIN bytes : bytes[k] >= 128
  THEN [err |-> "UnicodeDecodeError: 'ascii' codec can't decode byte", text |-> <<>>]
  ELSE [err |-> "", text |-> DecodeText(bytes)]

BundleFail(message) == [err |-> message, frame |-> NoFrame, newick |-> <<>>]

\* the loop over the node table: parents (NoParent for None) and the branch
\* lengths in units of 1 / BRANCH_SCALE
RECURSIVE DecodeNodeTable(_, _, _, _, _, _)
DecodeNodeTable(data, cursor, remaining, node_count, parents, lengths) ==
  IF remaining = 0
  THEN [err |-> "", cursor |-> cursor, parents |-> parents, lengths |-> lengths]
  ELSE LET p == phylo_decode_varint(data, cursor) IN
       IF p.err # "" THEN [err |-> p.err, cursor |-> p.cursor, parents |-> parents, lengths |-> lengths]
       ELSE LET q == phylo_decode_varint(data, p.cursor)
                parent_val == IF p.value = 0 THEN NoParent
                              ELSE IF p.value - 1 < node_count - 1 THEN p.value - 1
                              ELSE node_count - 1
            IN IF q.err # ""
               THEN [err |-> q.err, cursor |-> q.cursor, parents |-> parents, lengths |-> lengths]
               ELSE DecodeNodeTable(data, q.cursor, remaining - 1, node_count,
                                    Append(parents, parent_val), Append(lengths, q.value))

\* children[k]: the indices whose parent is k, ascending
ChildrenOf(parents, k) == AscendingList({idx \in 0..(Len(parents) - 1) : parents[idx + 1] = k})

\* the loop over the leaf table: the (index, label) entries in reading order
RECURSIVE DecodeLeafTable(_, _, _, _)
DecodeLeafTable(data, cursor, remaining, entries) ==
  IF remaining = 0 THEN [err |-> "", cursor |-> cursor, entries |-> entries]
  ELSE LET leaf_idx == phylo_decode_varint(data, cursor) IN
       IF leaf_idx.err # "" THEN [err |-> leaf_idx.err, cursor |-> cursor, entries |-> entries]
       ELSE LET label_len == phylo_decode_varint(data, leaf_idx.cursor) IN
            IF label_len.err # "" THEN [err |-> label_len.err, cursor |-> cursor, entries |-> entries]
            ELSE LET label == Utf8Decode(CutSlice(data, label_len.cursor,
                                                  label_len.cursor + label_len.value))
                 IN IF label.err # "" THEN [err |-> label.err, cursor |-> cursor, entries |-> entries]
                    ELSE DecodeLeafTable(data, label_len.cursor + label_len.value, remaining - 1,
                                         Append(entries, [idx |-> leaf_idx.value, label |-> label.text]))

\* the keys of the dict leaf_labels in insertion order
RECURSIVE LeafKeys(_, _)
LeafKeys(entries, i) ==
  IF i > Len(entries) THEN <<>>
  ELSE IF \E j \in 1..(i - 1) : entries[j].idx = entries[i].idx THEN LeafKeys(entries, i + 1)
  ELSE <<entries[i].idx>> \o LeafKeys(entries, i + 1)

\* leaf_labels[idx]: the label of the last entry read for that index
LeafLabelOf(entries, idx) ==
  entries[MaxOf({i \in DOMAIN entries : entries[i].idx = idx})].label

\* the inner loop over the differences of one node
RECURSIVE ApplyDiffs(_, _, _, _, _)
ApplyDiffs(data, cursor, remaining, pos, parent_seq) ==
  IF remaining = 0 THEN [err |-> "", cursor |-> cursor, sequence |-> parent_seq]
  ELSE LET delta == phylo_decode_varint(data, cursor) IN
       IF delta.err # "" THEN [err |-> delta.err, cursor |-> cursor, sequence |-> parent_seq]
       ELSE IF delta.cursor >= Len(data)
       THEN [err |-> "IndexError: index out of bounds on dimension 1",
             cursor |-> cursor, sequence |-> parent_seq]
       ELSE IF pos + delta.value >= Len(parent_seq)
       THEN [err |-> "IndexError: list assignment index out of range",
             cursor |-> cursor, sequence |-> parent_seq]
       ELSE ApplyDiffs(data, delta.cursor + 1, remaining - 1, pos + delta.value,
                       [parent_seq EXCEPT ![pos + delta.value + 1] = Chr(data[delta.cursor + 1])])

\* the loop over the nodes 1 .. node_count - 1; node_sequences holds the
\* sequences of the nodes below node_index
RECURSIVE DecodeNodeSequences(_, _, _, _, _)
DecodeNodeSequences(data, cursor, node_index, parents, node_sequences) ==
  IF node_index >= Len(parents) THEN [err |-> "", cursor |-> cursor, sequences |-> node_sequences]
  ELSE LET diff_count == phylo_decode_varint(data, cursor)
           parent_index == parents[node_index + 1]
       IN IF diff_count.err # ""
          THEN [err |-> diff_count.err, cursor |-> cursor, sequences |-> node_sequences]
          ELSE IF parent_index = NoParent
          THEN [err |-> "TypeError: list indices must be integers or slices, not NoneType",
                cursor |-> cursor, sequences |-> node_sequences]
          ELSE IF parent_index >= node_index
          THEN [err |-> "AttributeError: 'NoneType' object has no attribute 'copy'",
                cursor |-> cursor, sequences |-> node_sequences]
          ELSE LET applied == ApplyDiffs(data, diff_count.cursor, diff_count.value, 0,
                                         node_sequences[parent_index + 1])
               IN IF applied.err # ""
                  THEN [err |-> applied.err, cursor |-> cursor, sequences |-> node_sequences]
                  ELSE DecodeNodeSequences(data, applied.cursor, node_index + 1, parents,
                                           Append(node_sequences, applied.sequence))

\* str(n) for n >= 0
DigitChar(d) ==
  CASE d = 0 -> "0" [] d = 1 -> "1" [] d = 2 -> "2" [] d = 3 -> "3" [] d = 4 -> "4"
    [] d = 5 -> "5" [] d = 6 -> "6" [] d = 7 -> "7" [] d = 8 -> "8" [] d = 9 -> "9"

RECURSIVE Decimal(_)
Decimal(n) == IF n < 10 THEN <<DigitChar(n)>> ELSE Decimal(n \div 10) \o <<DigitChar(n % 10)>>

\* f"{length_q / BRANCH_SCALE:.6f}"
FormatLength(length_q) ==
  Decimal(length_q \div BRANCH_SCALE) \o <<".">>
  \o <<DigitChar((length_q \div 1000) % 10), DigitChar((length_q \div 100) % 10),
       DigitChar((length_q \div 10) % 10), DigitChar(length_q % 10), "0", "0">>

RECURSIVE recurse(_, _, _, _)
RECURSIVE JoinChildren(_, _, _, _, _)
JoinChildren(child_list, i, parents, entries, lengths) ==
  IF i > Len(child_list) THEN <<>>
  ELSE recurse(child_list[i], parents, entries, lengths)
       \o (IF i < Len(child_list) THEN <<",">> ELSE <<>>)
       \o JoinChildren(child_list, i + 1, parents, entries, lengths)

recurse(node, parents, entries, lengths) ==
  LET child_list == ChildrenOf(parents, node)
      label == IF \E i \in DOMAIN entries : entries[i].idx = node
               THEN LeafLabelOf(entries, node) ELSE <<>>
  IN IF Len(child_list) > 0
     THEN <<"(">> \o JoinChildren(child_list, 1, parents, entries, lengths) \o <<")">>
          \o label \o <<":">> \o FormatLength(lengths[node + 1])
     ELSE label \o <<":">> \o FormatLength(lengths[node + 1])

\* a root with a parent is its own descendant: recurse(0) does not return
_build_newick(parents, entries, lengths) ==
  IF Len(parents) = 0 THEN [err |-> "IndexError: list index out of range", newick |-> <<>>]
  ELSE IF parents[1] # NoParent
  THEN [err |-> "RecursionError: maximum recursion depth exceeded", newick |-> <<>>]
  ELSE [err |-> "", newick |-> recurse(0, parents, entries, lengths) \o <<";">>]

\* leaf_sequences[id_]: the sequence of the last key of leaf_labels carrying
\* that label; found is FALSE on KeyError
LeafSequenceOf(entries, node_sequences, id_) ==
  LET keys == LeafKeys(entries, 1)
      hits == {k \in DOMAIN keys : LeafLabelOf(entries, keys[k]) = id_}
  IN IF hits = {} THEN [found |-> FALSE, sequence |-> <<>>]
     ELSE [found |-> TRUE, sequence |-> node_sequences[keys[MaxOf(hits)] + 1]]

\* the frame and the Newick text built from the decoded tables
BundleFrame(metadata, parents, lengths, entries, node_sequences) ==
  IF \E i \in DOMAIN entries : entries[i].idx >= Len(node_sequences)
  THEN BundleFail("IndexError: list index out of range")
  ELSE IF \E k \in DOMAIN metadata["sequence_ids"] :
            ~LeafSequenceOf(entries, node_sequences, metadata["sequence_ids"][k]).found
  THEN BundleFail("KeyError")
  ELSE LET built == _build_newick(parents, entries, lengths) IN
       IF built.err # "" THEN BundleFail(built.err)
       ELSE [err |-> "",
             frame |-> alignment_from_sequences(
                         metadata["sequence_ids"],
                         [k \in DOMAIN metadata["sequence_ids"] |->
                            LeafSequenceOf(entries, node_sequences,
                                           metadata["sequence_ids"][k]).sequence],
                         DictGet(metadata, "alphabet", NULL),
                         [source_format |-> DictGet(metadata, "source_format", "unknown")]),
             newick |-> built.newick]

\* the root sequence and the node sequences, read after the leaf table
BundleSequences(data, cursor, metadata, parents, lengths, entries) ==
  LET alignment_len == phylo_decode_varint(data, cursor) IN
  IF alignment_len.err # "" THEN BundleFail(alignment_len.err)
  ELSE LET root_sequence == AsciiDecode(CutSlice(data, alignment_len.cursor,
                                                 alignment_len.cursor + alignment_len.value))
       IN IF root_sequence.err # "" THEN BundleFail(root_sequence.err)
          ELSE LET decoded == DecodeNodeSequences(data, alignment_len.cursor + alignment_len.value,
                                                  1, parents, <<root_sequence.text>>)
               IN IF decoded.err # "" THEN BundleFail(decoded.err)
                  ELSE BundleFrame(metadata, parents, lengths, entries, decoded.sequences)

\* the leaf table, read after the node table
BundleLeaves(data, cursor, metadata, parents, lengths) ==
  LET leaf_count == phylo_decode_varint(data, cursor) IN
  IF leaf_count.err # "" THEN BundleFail(leaf_count.err)
  ELSE LET leaves == DecodeLeafTable(data, leaf_count.cursor, leaf_count.value, <<>>)
       IN IF leaves.err # "" THEN BundleFail(leaves.err)
          ELSE BundleSequences(data, leaves.cursor, metadata, parents, lengths, leaves.entries)

decompress_alignment_with_tree(payload, metadata) ==
  IF CutSlice(payload, 0, 4) # PB_MAGIC THEN BundleFail("ValueError: Invalid phylo bundle header")
  ELSE LET node_count == phylo_decode_varint(payload, 4) IN
       IF node_count.err # "" THEN BundleFail(node_count.err)
       ELSE LET table == DecodeNodeTable(payload, node_count.cursor, node_count.value,
                                         node_count.value, <<>>, <<>>)
            IN IF table.err # "" THEN BundleFail(table.err)
               ELSE BundleLeaves(payload, table.cursor, metadata, table.parents, table.lengths)

(***************************************************************************)
(* The phylo bundle on its own                                             *)
(***************************************************************************)
\* identifier lists of n rows: plain, and with the last one outside ASCII
PhyloIds(n) == {InputIds(n), [InputIds(n) EXCEPT ![n] = <<EAcute>>]}

PhyloFrames(n) ==
  {alignment_from_sequences(ids, seqs, NULL, [source_format |-> "fasta"]) :
     ids \in PhyloIds(n),
     seqs \in UNION {[1..n -> [1..len -> Symbols]] :
                       len \in {c \in 0..MaxCols : n * c <= MaxCells}}}

\* Newick texts offered with a frame carrying these identifiers
PhyloTrees(ids) ==
  {NestedTree(ids),                                        \* leaves = rows
   <<" ">> \o FlatTree(Reverse(ids), <<":", "1">>) \o <<"\n">>,  \* branch lengths
   FlatTree(ids, <<":", "-", "1">>),                       \* negative branch lengths
   FlatTree(Tail(ids) \o << <<"x">> >>, <<>>),             \* unknown label
   FlatTree(Tail(ids) \o << <<"x">>, ids[1] >>, <<>>),     \* one label more
   FlatTree(ids \o <<ids[1]>>, <<>>),                      \* every leaf, one twice
   SubSeq(FlatTree(ids, <<>>), 1, Len(FlatTree(ids, <<>>)) - 1)}  \* no final ';'

SetOrders == {"low", "high"}

InitPhylo ==
  /\ frame = NoFrame
  /\ env = "auto"
  /\ oracle = NoOracle
  /\ pc = "call"
  /\ ordering = NoOrdering
  /\ compressed = NoCompressed
  /\ restored = NoFrame
  /\ disk = NoDisk
  /\ outcome = "none"
  /\ \E n \in 1..MaxRows :
       \E f \in PhyloFrames(n) :
         \E newick \in PhyloTrees(f.ids) :
           \E pick \in SetOrders :
             call = [kind |-> "phylo", frame |-> f, newick |-> newick, pick |-> pick]
  /\ written = <<>>
  /\ returned = NoReturn

CompressAlignmentWithTree ==
  /\ pc = "call"
  /\ \E result \in {compress_alignment_with_tree(call.frame, call.newick, call.pick)} :
       /\ written' = result
       /\ outcome' = IF result.err = "" THEN "ok" ELSE result.err
  /\ pc' = "bundled"
  /\ UNCHANGED <<frame, env, oracle, ordering, compressed, restored, disk, call, returned>>

DecompressAlignmentWithTree ==
  /\ pc = "bundled"
  /\ written.err = ""
  /\ \E result \in {decompress_alignment_with_tree(written.payload, written.metadata)} :
       /\ returned' = result
       /\ outcome' = IF result.err = "" THEN "ok" ELSE result.err
  /\ pc' = "unbundled"
  /\ UNCHANGED <<frame, env, oracle, ordering, compressed, restored, disk, call, written>>

NextPhylo == CompressAlignmentWithTree \/ DecompressAlignmentWithTree

SpecPhylo == InitPhylo /\ [][NextPhylo]_vars

(***************************************************************************)
(* Properties of compress_alignment and decompress_alignment               *)
(***************************************************************************)
FallbackTaken == "fallback" \in DOMAIN compressed.metadata

\* the frame was handed to the optimizer with a tree hint it can use
TreeReordered ==
  /\ num_sequences(frame) > 2
  /\ Len(frame.metadata.tree_newick) > 0
  /\ env = "auto"

\* what compress_alignment returns for the same call when gzip(FASTA) is as
\* long as the FASTA text, so that the fallback is out of the question
StructuredResult == compress_alignment(frame, env, [oracle EXCEPT !.gzip = GzipBelowFasta(0)])

FastaLength == Len(_alignment_to_fasta_bytes(frame))

\* the length of gzip(FASTA) under the library behaviour of this run
GzipLength(structured_length) ==
  CompressedLength(IF oracle.gzip.base = "payload" THEN structured_length ELSE FastaLength,
                   oracle.gzip.delta)

SmallHeaderOverhead == HEADER_SIZE + 1

C6_FallbackMetadata ==
  (pc = "compressed" /\ FallbackTaken) =>
    /\ compressed.metadata.codec = "fallback-gzip"
    /\ "sequence_permutation" \notin DOMAIN compressed.metadata
    /\ compressed.metadata.fallback.type = "gzip"
    /\ compressed.metadata.fallback.format = frame.metadata.source_format
    /\ compressed.metadata.payload_encoding = "gzip"

(***************************************************************************)
(* Properties of decompress_file                                           *)
(***************************************************************************)
HasStoredChecksum == "checksum_sha256" \in DOMAIN read_metadata(disk.metadata).data

\* the checksum_sha256 of the metadata file, NULL when it has none
StoredChecksum == DictGet(read_metadata(disk.metadata).data, "checksum_sha256", NULL)

\* the checksum of the rows decompress_alignment reconstructs from the files
ReconstructedChecksum ==
  alignment_checksum(
    decompress_alignment(read_payload(disk.archive).payload,
                         read_metadata(disk.metadata).data, oracle).frame.sequences)

WrittenRows == [ids |-> frame.ids, sequences |-> frame.sequences]

DistanceMatrixOf(f) ==
  _build_distance_matrix(f.sequences,
                         _select_sample_indices(alignment_length(f), SAMPLE_CAP))

CostOf(f, order) == _order_cost(order, DistanceMatrixOf(f))

IdentityOrder(f) == RangeList(num_sequences(f))

IsPermutation(order, n) == Len(order) = n /\ Range(order) = 0..(n - 1)

\* the candidate a label stands for ("auto-x" stands for x)
LabelCandidate(label) ==
  CASE label = "auto-baseline" -> "baseline"
    [] label = "auto-mst" -> "mst"
    [] label = "auto-greedy" -> "greedy"
    [] OTHER -> label

\* every leaf label of a parsed tree, depth first
RECURSIVE LeafLabels(_)
RECURSIVE LeafLabelsOfAll(_, _)
LeafLabelsOfAll(children, i) ==
  IF i > Len(children) THEN <<>>
  ELSE LeafLabels(children[i]) \o LeafLabelsOfAll(children, i + 1)

LeafLabels(node) ==
  IF Len(node.children) = 0 THEN <<node.label>>
  ELSE LeafLabelsOfAll(node.children, 1)

HintParses(f) == _parse_newick(f.metadata.tree_newick).ok

HintLeaves(f) == LeafLabels(_parse_newick(f.metadata.tree_newick).node)

\* the hint parses and its leaves are the identifiers of f, each once
HintUsable(f) ==
  /\ HintParses(f)
  /\ Len(HintLeaves(f)) = Len(f.ids)
  /\ \A k \in DOMAIN f.ids :
       Cardinality({j \in DOMAIN HintLeaves(f) : HintLeaves(f)[j] = f.ids[k]}) = 1

\* the depth-first leaf order mapped to row indices
HintRowOrder(f) ==
  [j \in DOMAIN HintLeaves(f) |->
     (CHOOSE k \in DOMAIN f.ids : f.ids[k] = HintLeaves(f)[j]) - 1]

\* the order of the candidate called name, for the frame f
CandidateOrder(f, name) ==
  CASE name = "baseline" -> IdentityOrder(f)
    [] name = "mst" -> _mst_sequence_order(DistanceMatrixOf(f))
    [] name = "greedy" -> _greedy_sequence_order(DistanceMatrixOf(f))
    [] name = "tree" -> HintRowOrder(f)

LabelNamesChosenOrder ==
  /\ LabelCandidate(ordering.label) \in {"baseline", "mst", "greedy", "tree"}
  /\ ordering.order = CandidateOrder(frame, LabelCandidate(ordering.label))

\* C7 as stated: in every configuration the chosen order costs no more than
\* the identity order, and the label names the candidate whose order was chosen.
C7_AnyConfigurationCostAtMostBaseline ==
  pc = "ordered" =>
    /\ CostOf(frame, ordering.order) <= CostOf(frame, IdentityOrder(frame))
    /\ LabelNamesChosenOrder

\* C7 amended: whenever the recorded label is not mst, greedy or tree (the
\* order is the baseline or was picked by the auto selection) the chosen order
\* costs no more than the identity order; in every configuration the label
\* names the candidate whose order was chosen.
C7_AutoCostAtMostBaseline ==
  pc = "ordered" =>
    /\ ordering.label \notin {"mst", "greedy", "tree"} =>
         CostOf(frame, ordering.order) <= CostOf(frame, IdentityOrder(frame))
    /\ LabelNamesChosenOrder

C7_Witness ==
  /\ pc = "ordered"
  /\ ordering.label \in {"auto-mst", "auto-greedy"}
  /\ ordering.order # IdentityOrder(frame)
  /\ CostOf(frame, ordering.order) < CostOf(frame, IdentityOrder(frame))

GapThreshold == [num |-> 1, den |-> 2]

GapCount(f) ==
  Cardinality({<<i, j>> \in (DOMAIN f.sequences) \X (1..alignment_length(f)) :
                 f.sequences[i][j] = "-"})

GapHeavy(f) ==
  GapCount(f) * GapThreshold.den
    > GapThreshold.num * num_sequences(f) * alignment_length(f)

\* C9: on a gap-heavy frame whose tree order is not cheaper than the identity
\* order, the tree order is not used and the recorded strategy is not tree.
C9_GapHeavyTreeRejected ==
  (/\ pc = "ordered"
   /\ num_sequences(frame) > 2
   /\ GapHeavy(frame)
   /\ HintUsable(frame)
   /\ CostOf(frame, HintRowOrder(frame)) >= CostOf(frame, IdentityOrder(frame)))
  => ordering.label # "tree"

\* _choose_order ran: more than two rows, no usable tree, a column to sample
ChooseOrderRan(f) ==
  num_sequences(f) > 2 /\ ~HintUsable(f) /\ alignment_length(f) > 0

\* C10: an override of baseline, mst or greedy returns that candidate's order
\* under exactly that label; any other value behaves as auto.
C10_OverrideForcesCandidate ==
  (pc = "ordered" /\ ChooseOrderRan(frame)) =>
    IF Lower(env) \in {"baseline", "mst", "greedy"}
    THEN /\ ordering.label = Lower(env)
         /\ ordering.order = CandidateOrder(frame, Lower(env))
    ELSE /\ ordering.label \in {"auto-baseline", "auto-mst", "auto-greedy"}
         /\ \A name \in {"baseline", "mst", "greedy"} :
              CostOf(frame, ordering.order) <= CostOf(frame, CandidateOrder(frame, name))

\* the frame decompress_alignment returns when the stored permutation is
\* withheld: the rows and identifiers in the order the payload stores them
StoredOrderDecode ==
  decompress_alignment(compressed.payload,
                       DictPop(compressed.metadata, "sequence_permutation"), oracle)

ContestInput(structured) ==
  IF structured.metadata.payload_encoding = "raw" THEN structured.payload
  ELSE LibDecompress(structured.metadata.payload_encoding, structured.payload).data

Timings ==
  {[zstd |-> 1, zlib |-> 2, xz |-> 3],
   [zstd |-> 3, zlib |-> 2, xz |-> 1],
   [zstd |-> 2, zlib |-> 2, xz |-> 2]}

C14_DecompressLeavesMetadata ==
  [][(pc = "compressed" /\ pc' = "restored") =>
       compressed'.metadata = compressed.metadata]_vars

(***************************************************************************)
(* Properties of the codec functions called on their own                   *)
(***************************************************************************)
\* per block of the stream starting at cursor, the dict_id it was written
\* with, or -1 for a literal
RECURSIVE WrittenReferences(_, _, _)
WrittenReferences(payload, cursor, remaining) ==
  IF remaining = 0 THEN <<>>
  ELSE IF payload[cursor + 1] = 1
  THEN <<payload[cursor + 2]>> \o WrittenReferences(payload, cursor + 3, remaining - 1)
  ELSE LET mask_len == payload[cursor + 4]
           residues_len == UnpackBE(payload, cursor + 4 + mask_len, 2)
       IN <<-1>> \o WrittenReferences(payload, cursor + 4 + mask_len + 2 + residues_len,
                                      remaining - 1)

\* the dictionary a reader decodes from the head of the written stream
WrittenDictionary == DecodeDictionary(written, 1, written[1], call.bitmask_bytes, <<>>)

\* C17: in a stream encode_blocks produced, every block written as a
\* dictionary reference names an entry whose decoded consensus, re-padded
\* bitmask and residues are those of the block it stands for.
C17_ReferenceResolvesToBlock ==
  (pc = "encoded" /\ call.kind = "blocks" /\ outcome = "ok") =>
    \A dict \in {WrittenDictionary} :
      \A refs \in {WrittenReferences(written, dict.cursor + 4, Len(call.blocks))} :
        /\ dict.err = ""
        /\ \A i \in DOMAIN call.blocks :
             refs[i] >= 0 =>
               /\ refs[i] < Len(dict.dictionary)
               /\ dict.dictionary[refs[i] + 1] = BlockKey(call.blocks[i])

\* two different blocks were both written as references, the second to an
\* entry whose mask had been trimmed
C17_Witness ==
  /\ pc = "encoded"
  /\ call.kind = "blocks"
  /\ outcome = "ok"
  /\ call.bitmask_bytes = 2
  /\ Len(call.blocks) = 2
  /\ BlockKey(call.blocks[1]) # BlockKey(call.blocks[2])
  /\ call.blocks[2].bitmask = <<1, 0>>
  /\ WrittenReferences(written, WrittenDictionary.cursor + 4, 2) = <<0, 1>>

\* C18: for every block list with run lengths in 1..255 and bitmasks of the
\* declared width, encode_blocks succeeds and decode_blocks of its output
\* returns a list equal to the blocks.
C18_BlocksRoundTrip ==
  (/\ call.kind = "blocks"
   /\ \A i \in DOMAIN call.blocks :
        /\ call.blocks[i].run_length \in 1..255
        /\ Len(call.blocks[i].bitmask) = call.bitmask_bytes) =>
    /\ pc = "encoded" => outcome = "ok"
    /\ pc = "decoded" => (returned.err = "" /\ returned.blocks = call.blocks)

\* the three validation failures of an archive file
ShorterThanHeader == Len(disk.archive) < HEADER_SIZE

WrongMagic ==
  ~ShorterThanHeader /\ SubSeq(disk.archive, 1, Len(HEADER_MAGIC)) # HEADER_MAGIC

DeclaredLengthDiffers ==
  /\ ~ShorterThanHeader
  /\ UnpackBE(disk.archive, HEADER_SIZE - 4, 4) # Len(disk.archive) - HEADER_SIZE

\* C15: reading an archive file that is shorter than the header, or whose
\* magic is not the archive magic, or whose payload byte count differs from
\* the length its header declares, raises, and returns no payload bytes.
C15_InvalidArchiveRaises ==
  (/\ pc \in {"read", "read-damaged"}
   /\ ShorterThanHeader \/ WrongMagic \/ DeclaredLengthDiffers) =>
    /\ returned.err # ""
    /\ outcome = returned.err
    /\ returned.payload = <<>>

\* a file with the right magic and more payload bytes than its header declares
C15_Witness ==
  /\ pc = "read-damaged"
  /\ ~WrongMagic
  /\ DeclaredLengthDiffers
  /\ Len(disk.archive) - HEADER_SIZE > UnpackBE(disk.archive, HEADER_SIZE - 4, 4)
  /\ Len(call.payload) > 0
  /\ returned.err = "ValueError: Payload length does not match header metadata"

\* C16: reading the files write_payload and write_metadata wrote returns the
\* payload bytes and a metadata dictionary equal to the one written, unknown
\* keys included, in the plain JSON form and in the ECMZ form.
C16_ArchiveRoundTrip ==
  pc = "read" =>
    /\ returned.err = ""
    /\ returned.payload = call.payload
    /\ returned.metadata = call.metadata

\* the longest payload and a dictionary with a key the codec does not know,
\* stored in the ECMZ form
C16_Witness ==
  /\ pc = "read"
  /\ StartsWith(disk.metadata, METADATA_COMPRESSED_MAGIC)
  /\ "x_custom" \in DOMAIN returned.metadata
  /\ returned.metadata.x_custom.values = <<1, 2>>
  /\ Len(returned.payload) = MaxPayloadLength

\* C20: decoding the identifier block followed by any bytes returns the
\* identifiers that were encoded and exactly those bytes, in each of the
\* storage modes plain, zstd and zlib.
C20_SequenceIdsRoundTrip ==
  (pc = "decoded" /\ call.kind = "ids") =>
    /\ returned.err = ""
    /\ returned.ids = call.ids
    /\ returned.remaining = call.rest

\* a zstd-stored block holding the long identifier, followed by bytes that
\* look like another identifier block
C20_Witness ==
  /\ pc = "decoded"
  /\ call.kind = "ids"
  /\ call.ids = <<IdPool[1], LongId>>
  /\ call.rest = SEQ_ID_MAGIC \o <<SEQ_ID_VERSION, 1, 0>>
  /\ oracle.zstd_available
  /\ written[Len(SEQ_ID_MAGIC) + 1 + 2 + 1] = 1
  /\ returned.ids = call.ids
  /\ returned.remaining = call.rest


RECURSIVE SumRunLengths(_)
SumRunLengths(blocks) ==
  IF Len(blocks) = 0 THEN 0 ELSE blocks[1].run_length + SumRunLengths(Tail(blocks))

\* the number of set bits of a byte string
RECURSIVE Popcount(_)
Popcount(data) ==
  IF Len(data) = 0 THEN 0
  ELSE Cardinality({b \in 0..7 : (data[1] \div (2^b)) % 2 = 1}) + Popcount(Tail(data))

\* the first column of block k: one past the columns of the blocks before it
FirstColumn(blocks, k) == SumRunLengths(SubSeq(blocks, 1, k - 1)) + 1

\* C19: of the blocks the grouper returns for a frame, every run_length is in
\* 1..255, the run lengths sum to the column count, and the set bits of each
\* bitmask are as many as the residues packed into the block's residues
\* (one per deviating row, bits_per_symbol bits each).
C19_GrouperBlocks ==
  (pc = "grouped" /\ call.kind = "columns") =>
    \A blocks \in {returned.blocks} :
      /\ \A k \in DOMAIN blocks : blocks[k].run_length \in 1..255
      /\ SumRunLengths(blocks) = alignment_length(call.frame)
      /\ \A k \in DOMAIN blocks :
           \A packed \in {Len(call.profiles[FirstColumn(blocks, k)].deviations)} :
             /\ Popcount(blocks[k].bitmask) = packed
             /\ Len(blocks[k].residues)
                  = (packed * BitsPerSymbol(call.frame.alphabet) + 7) \div 8

\* a run of 256 equal columns with a deviating row was split into blocks of
\* 255 and 1, and a block without deviation follows
C19_Witness ==
  /\ pc = "grouped"
  /\ call.kind = "columns"
  /\ num_sequences(call.frame) = 2
  /\ Len(returned.blocks) = 3
  /\ returned.blocks[1].run_length = 255
  /\ returned.blocks[2].run_length = 1
  /\ returned.blocks[1].bitmask = <<2>>
  /\ returned.blocks[2].bitmask = <<2>>
  /\ returned.blocks[3].bitmask = <<0>>

\* the exception class of an outcome: the text before its message
Raised(err, class) == Len(err) >= Len(class) /\ SubSeq(err, 1, Len(class)) = class

\* the payload envelopes decompress_alignment is said to accept
KnownEncodings == {"raw", "zlib", "zstd", "xz"}

\* C21: decompress_alignment returns no frame when the metadata's
\* payload_encoding is none of raw, zlib, zstd, xz, and when the payload is
\* tagged zstd and the zstandard module is unavailable it fails with a
\* FormatError.
C21_UnknownOrUnavailableEncodingFails ==
  (pc = "decompressed" /\ call.kind = "decode") =>
    /\ call.metadata["payload_encoding"] \notin KnownEncodings
         => (returned.err # "" /\ returned.frame = NoFrame)
    /\ (call.metadata["payload_encoding"] = "zstd" /\ ~call.lib.zstd_available)
         => (Raised(returned.err, "FormatError") /\ returned.frame = NoFrame)

\* the payload of the call is structured and its envelope, identifiers and
\* block stream are the ones compress_alignment wrote
StructuredDecode ==
  /\ pc = "decompressed"
  /\ call.kind = "decode"
  /\ "fallback" \notin DOMAIN call.metadata
  /\ call.metadata["payload_encoding"] = call.given["payload_encoding"]
  /\ call.given["payload_encoding"] = "zstd" => call.lib.zstd_available

\* the blocks decode_blocks returns inside the call
DecodedBlocks ==
  LET encoding == call.metadata["payload_encoding"]
      data == IF encoding = "raw" THEN call.payload
              ELSE LibDecompress(encoding, call.payload).data
      body == IF StartsWith(data, SEQ_ID_MAGIC)
              THEN _decode_sequence_ids(data, call.lib).remaining ELSE data
  IN decode_blocks(body, call.metadata["bitmask_bytes"],
                   call.metadata["bits_per_symbol"]).blocks

C23_SampleWithinCap ==
  (pc = "sampled" /\ call.kind = "sample") =>
    \A indices \in {returned.indices} :
      /\ Len(indices) <= SAMPLE_CAP
      /\ \A k \in 1..(Len(indices) - 1) : indices[k] < indices[k + 1]
      /\ indices[1] = 0
      /\ indices[Len(indices)] = call.length - 1

\* the number of blocks that carry a triple
BlocksCarrying(blocks, key) == Cardinality({i \in DOMAIN blocks : BlockKey(blocks[i]) = key})

\* the bytes of a literal block, of a dictionary entry and of a reference
LiteralCost(key) == 1 + 1 + 1 + 1 + Len(_trim_bitmask(key.bitmask)) + 2 + Len(key.residues)

EntryCost(key) == 1 + 1 + Len(_trim_bitmask(key.bitmask)) + 2 + Len(key.residues)

ReferenceCost == 1 + 1 + 1

\* C24: the dictionary built for a block stream has at most 255 entries, and
\* a triple is in it only when the number of blocks that carry it times the
\* literal cost exceeds the entry cost plus that number times the reference
\* cost.
C24_DictionaryEntriesSaveBytes ==
  (pc = "encoded" /\ call.kind = "blocks" /\ outcome = "ok") =>
    \A dictionary \in {_build_dictionary(call.blocks)} :
      /\ Len(dictionary) <= 255
      /\ \A d \in DOMAIN dictionary :
           \A carried \in {BlocksCarrying(call.blocks, dictionary[d])} :
             carried * LiteralCost(dictionary[d])
               > EntryCost(dictionary[d]) + carried * ReferenceCost

\* the plain form of the identifiers of the call
PlainIds == _encode_varint(Len(call.ids)) \o EncodeNames(call.ids)

\* the compressed forms the libraries of the run produce for the plain form:
\* storage mode and length
CompressedIdForms ==
  {[mode |-> 1, length |-> CompressedLength(Len(PlainIds), oracle.ids_zstd)] :
     available \in {a \in {TRUE} : oracle.zstd_available}}
    \cup {[mode |-> 2, length |-> CompressedLength(Len(PlainIds), oracle.ids_zlib)]}

\* the compressed forms at least 2 bytes shorter than the plain form
QualifyingIdForms == {form \in CompressedIdForms : form.length + 2 <= Len(PlainIds)}

\* offset of the mode byte in the written block: after the magic, the version
\* and the block length
ModeOffset == _decode_varint(written, Len(SEQ_ID_MAGIC) + 1).cursor

\* C25: the sequence-ID encoder writes the smallest of the zstd and zlib forms
\* that is at least 2 bytes shorter than the plain form, and the plain form
\* (mode 0) when neither is.
C25_SmallestQualifyingIdForm ==
  (pc = "encoded" /\ call.kind = "ids") =>
    \A mode \in {written[ModeOffset + 1]}, length \in {Len(written) - (ModeOffset + 1)} :
      IF QualifyingIdForms = {}
      THEN mode = 0 /\ length = Len(PlainIds)
      ELSE /\ [mode |-> mode, length |-> length] \in QualifyingIdForms
           /\ \A form \in QualifyingIdForms : length <= form.length

\* C26: for every byte string, decode_blocks returns a block list or raises
\* DecodingError and nothing else, whatever is truncated, unknown, out of
\* range or longer than the bitmask width; the empty payload decodes to the
\* empty list.
C26_OnlyDecodingError ==
  (pc = "parsed" /\ call.kind = "bytes") =>
    /\ returned.err = "" \/ Raised(returned.err, "DecodingError")
    /\ call.payload = <<>> => (returned.err = "" /\ returned.blocks = <<>>)

\* the row order the optimizer chose for the call
ChosenOrder == _compute_similarity_order(frame, env).order

RowSum(idx) == SumRow(call.dm[idx], MatrixSize(call.dm))

\* C28: on a symmetric distance matrix over n >= 1 rows, the MST order and
\* the greedy order each return every row index exactly once; the MST order
\* starts at row 0 and the greedy order at a row of minimum row sum.
C28_OrdersArePermutations ==
  (pc \in {"mst", "greedy"} /\ call.kind = "matrix") =>
    \A order \in {returned.order}, n \in {MatrixSize(call.dm)} :
      /\ IsPermutation(order, n)
      /\ pc = "mst" => order[1] = 0
      /\ pc = "greedy" => \A idx \in 0..(n - 1) : RowSum(order[1]) <= RowSum(idx)

\* a greedy order over four rows that starts at the last row, on a matrix
\* whose MST order is not the identity
C28_Witness ==
  /\ pc = "greedy"
  /\ call.kind = "matrix"
  /\ MatrixSize(call.dm) = 4
  /\ returned.order[1] = 3
  /\ _mst_sequence_order(call.dm) # RangeList(4)

\* the blocks of the call are what the grouper emits for a frame of some row
\* count: run lengths in 1..255 and bitmasks of the declared width
WellFormedBlocks ==
  /\ call.kind = "blocks"
  /\ \A i \in DOMAIN call.blocks :
       /\ call.blocks[i].run_length \in 1..MAX_RUN_LENGTH
       /\ Len(call.blocks[i].bitmask) = call.bitmask_bytes

\* C29: whatever the row count, the trimmed bitmask of every block fits the
\* one-byte mask-length field and its residues fit the two-byte field, so
\* encode_blocks does not fail on a well-formed block and the decoder reads
\* back the same lengths.
C29_LengthFieldsSuffice ==
  (WellFormedBlocks /\ pc \in {"encoded", "decoded"}) =>
    /\ \A i \in DOMAIN call.blocks :
         /\ Len(_trim_bitmask(call.blocks[i].bitmask)) <= MAX_MASK_LENGTH
         /\ Len(call.blocks[i].residues) <= MAX_RESIDUES_LENGTH
    /\ pc = "encoded" => outcome = "ok"
    /\ pc = "decoded" =>
         /\ Len(returned.blocks) = Len(call.blocks)
         /\ \A i \in DOMAIN call.blocks :
              /\ Len(returned.blocks[i].bitmask) = Len(call.blocks[i].bitmask)
              /\ Len(returned.blocks[i].residues) = Len(call.blocks[i].residues)

\* the leaf labels of a parsed Newick text, in the order of the text
TreeLeafLabels(newick) ==
  LET collected == _collect_nodes(phylo_parse_newick(newick).node)
  IN [k \in DOMAIN collected.leaf_indices |->
        collected.nodes[collected.leaf_indices[k] + 1].label]

\* the text is a Newick tree whose leaf labels are exactly the identifiers of
\* the frame of the call, each once
LeavesAreIdsOnce ==
  /\ phylo_parse_newick(call.newick).err = ""
  /\ Range(TreeLeafLabels(call.newick)) = Range(call.frame.ids)
  /\ Len(TreeLeafLabels(call.newick)) = Len(call.frame.ids)

\* the set of leaf labels differs from the set of identifiers
LeafSetDiffers ==
  /\ phylo_parse_newick(call.newick).err = ""
  /\ Range(TreeLeafLabels(call.newick)) # Range(call.frame.ids)

\* C30: with a Newick tree whose leaf labels are exactly the frame's
\* identifiers, each once, compress_alignment_with_tree produces a payload and
\* decompress_alignment_with_tree turns payload and metadata back into a frame
\* with the same identifier order and the same rows; with a leaf label set that
\* differs from the identifier set, compress_alignment_with_tree raises and
\* produces no payload.
C30_TreeBundleRoundTrip ==
  (call.kind = "phylo" /\ pc \in {"bundled", "unbundled"}) =>
    /\ LeavesAreIdsOnce => written.err = ""
    /\ (LeavesAreIdsOnce /\ pc = "unbundled") =>
         /\ returned.err = ""
         /\ returned.frame.ids = call.frame.ids
         /\ returned.frame.sequences = call.frame.sequences
    /\ LeafSetDiffers => (written.err # "" /\ written.payload = <<>>)

====
